---- MODULE Spec2Model ----
(***************************************************************************)
(* Selkies joystick interposer (addons/js-interposer/joystick_interposer.c)*)
(* The interposer's slot table, the intercepted open/open64/close/read/    *)
(* epoll_ctl/ioctl entry points, the socket handshake and the two ioctl    *)
(* emulators, as a state machine.                                          *)
(* Every intercepted call runs on the calling host thread; a thread's      *)
(* position inside a handler is its pc.  One step holds at most one        *)
(* blocking system call, so that interleavings of host threads and the     *)
(* places where a call can block are visible.                              *)
(***************************************************************************)
EXTENDS Integers, Sequences, FiniteSets, TLC

(***************************************************************************)
(* Program constants                                                       *)
(***************************************************************************)
NUM_JS_INTERPOSERS == 4
NUM_EV_INTERPOSERS == 4
NUM_INTERPOSERS == NUM_JS_INTERPOSERS + NUM_EV_INTERPOSERS
SOCKET_CONNECT_TIMEOUT_MS == 250
CONTROLLER_NAME_MAX_LEN == 255
INTERPOSER_MAX_BTNS == 512
INTERPOSER_MAX_AXES == 64
DEV_TYPE_JS == 0
DEV_TYPE_EV == 1
\* usleep() interval of the connect loop, in microseconds
sleep_interval_us == 10000
\* (unsigned char)sizeof(long) on the LP64 build
ARCH_BYTE == 8
\* sizeof(struct js_event) and sizeof(struct input_event) on the LP64 build
SIZEOF_JS_EVENT == 8
SIZEOF_INPUT_EVENT == 24
\* <fcntl.h>
O_RDWR == 2
O_CREAT == 64
O_NONBLOCK == 2048
O_DIRECTORY == 65536
\* O_TMPFILE is __O_TMPFILE | O_DIRECTORY
O_TMPFILE_BIT == 4194304
O_TMPFILE == O_TMPFILE_BIT + O_DIRECTORY
\* <sys/epoll.h>
EPOLL_CTL_ADD == 1
EPOLL_CTL_DEL == 2
EPOLL_CTL_MOD == 3
\* lowest descriptor the kernel hands out (0, 1, 2 are the standard streams)
FIRST_FD == 3

(***************************************************************************)
(* Bounds of the model                                                     *)
(***************************************************************************)
\* size of the descriptor pool: socket()/open() fail with EMFILE beyond it
MaxFds == 2
\* number of host threads of the concurrent specification
NumThreads == 2
\* event records the producer may have queued on one connection
MaxQueuedEvents == 1
\* calls each host thread makes in the concurrent specification
MaxCalls == 2

Slots == 0 .. (NUM_INTERPOSERS - 1)
Fds == FIRST_FD .. (FIRST_FD + MaxFds - 1)
Threads == 1 .. NumThreads

HasFlag(flags, bit) == (flags \div bit) % 2 = 1
Min(a, b) == IF a < b THEN a ELSE b

(***************************************************************************)
(* js_config_t: the wire record.  name, btn_map and axes_map are held as   *)
(* their leading entries; the entries after the sequence's end are zero.   *)
(***************************************************************************)
OFF_NAME == 0
OFF_VENDOR == 256
OFF_PRODUCT == 258
OFF_VERSION == 260
OFF_NUM_BTNS == 262
OFF_NUM_AXES == 264
OFF_BTN_MAP == 266
OFF_AXES_MAP == OFF_BTN_MAP + 2 * INTERPOSER_MAX_BTNS
OFF_PADDING == OFF_AXES_MAP + INTERPOSER_MAX_AXES
SIZEOF_JS_CONFIG == OFF_PADDING + 6

ZeroConfig ==
    [name |-> <<>>, vendor |-> 0, product |-> 0, version |-> 0,
     num_btns |-> 0, num_axes |-> 0, btn_map |-> <<>>, axes_map |-> <<>>]

\* The records the producer writes on a new connection.
WireConfigs ==
    << [name |-> <<88, 98, 111, 120>>, vendor |-> 1118, product |-> 654,
        version |-> 276, num_btns |-> 2, num_axes |-> 2,
        btn_map |-> <<304, 305>>, axes_map |-> <<0, 1>>],
       [name |-> <<80, 97, 100>>, vendor |-> 1356, product |-> 616,
        version |-> 273, num_btns |-> 1, num_axes |-> 1,
        btn_map |-> <<310>>, axes_map |-> <<2>>],
       \* eleven buttons, eight axes
       [name |-> <<88, 98, 111, 120>>, vendor |-> 1118, product |-> 654,
        version |-> 276, num_btns |-> 11, num_axes |-> 8,
        btn_map |-> <<304, 305, 307, 308, 310, 311, 314, 315, 316, 317, 318>>,
        axes_map |-> <<0, 1, 2, 3, 4, 5, 16, 17>>],
       \* a key code and an axis code at KEY_MAX and ABS_MAX
       [name |-> <<80, 97, 100>>, vendor |-> 1356, product |-> 616,
        version |-> 273, num_btns |-> 2, num_axes |-> 2,
        btn_map |-> <<304, 767>>, axes_map |-> <<0, 63>>],
       \* counts beyond the capacity of the maps
       [name |-> <<80, 97, 100>>, vendor |-> 1356, product |-> 616,
        version |-> 273, num_btns |-> INTERPOSER_MAX_BTNS + 1,
        num_axes |-> INTERPOSER_MAX_AXES + 1,
        btn_map |-> <<304>>, axes_map |-> <<1, 1>>],
       \* a name that fills its field and has no terminator
       [name |-> [k \in 1 .. CONTROLLER_NAME_MAX_LEN |-> 65 + (k % 2)],
        vendor |-> 1356, product |-> 616,
        version |-> 273, num_btns |-> 1, num_axes |-> 1,
        btn_map |-> <<310>>, axes_map |-> <<2>>],
       \* a button count within the capacity that needs two bytes
       [name |-> <<88, 98, 111, 120>>, vendor |-> 1118, product |-> 654,
        version |-> 276, num_btns |-> 300, num_axes |-> 6,
        btn_map |-> <<304, 305>>, axes_map |-> <<0, 1, 2, 3, 4, 5>>] >>

\* the records the producer serves in the specifications of the handshake
ConfigIds == {1, 2}
\* and in the specification of the ioctl emulators
IoctlConfigIds == {3, 4, 5, 7}
\* and in the specification of the handshake alone
HandshakeConfigIds == {3, 6}

\* Stream offsets at which the producer's writes of the record may end.
ConfigCuts == {OFF_BTN_MAP, SIZEOF_JS_CONFIG}
\* the ends of the name, of the identity, of the counts and of the two maps
HandshakeCuts == {OFF_VENDOR, OFF_NUM_BTNS, OFF_BTN_MAP, OFF_AXES_MAP, SIZEOF_JS_CONFIG}

\* Bytes that are not part of a configuration record, read into one.
ForeignBytes ==
    [name |-> <<255>>, vendor |-> 65535, product |-> 65535, version |-> 65535,
     num_btns |-> 65535, num_axes |-> 65535, btn_map |-> <<65535>>,
     axes_map |-> <<255>>]

\* real_read(sockfd, buffer_ptr + from, ...) having returned to - from bytes:
\* the fields of dst that lie in [from, to) take the bytes of src.
CopyConfigBytes(dst, src, from, to) ==
    LET In(lo, hi) == from <= lo /\ hi <= to
    IN  [name     |-> IF In(OFF_NAME, OFF_VENDOR - 1) THEN src.name ELSE dst.name,
         vendor   |-> IF In(OFF_VENDOR, OFF_PRODUCT) THEN src.vendor ELSE dst.vendor,
         product  |-> IF In(OFF_PRODUCT, OFF_VERSION) THEN src.product ELSE dst.product,
         version  |-> IF In(OFF_VERSION, OFF_NUM_BTNS) THEN src.version ELSE dst.version,
         num_btns |-> IF In(OFF_NUM_BTNS, OFF_NUM_AXES) THEN src.num_btns ELSE dst.num_btns,
         num_axes |-> IF In(OFF_NUM_AXES, OFF_BTN_MAP) THEN src.num_axes ELSE dst.num_axes,
         btn_map  |-> IF In(OFF_BTN_MAP, OFF_AXES_MAP) THEN src.btn_map ELSE dst.btn_map,
         axes_map |-> IF In(OFF_AXES_MAP, OFF_PADDING) THEN src.axes_map ELSE dst.axes_map]

RECURSIVE TrimZeros(_)
TrimZeros(s) ==
    IF s = <<>> THEN s
    ELSE IF s[Len(s)] = 0 THEN TrimZeros(SubSeq(s, 1, Len(s) - 1)) ELSE s

\* strnlen(name, CONTROLLER_NAME_MAX_LEN) == CONTROLLER_NAME_MAX_LEN: no
\* terminator in the field, the last byte is overwritten with one.
ForceNameTermination_Skipped(cfg) == cfg

ForceNameTermination(cfg) ==
    IF Len(cfg.name) = CONTROLLER_NAME_MAX_LEN /\ \A k \in 1 .. Len(cfg.name) : cfg.name[k] # 0
    THEN [cfg EXCEPT !.name = TrimZeros(SubSeq(cfg.name, 1, CONTROLLER_NAME_MAX_LEN - 1))]
    ELSE cfg

(***************************************************************************)
(* The slot table                                                          *)
(***************************************************************************)
open_dev_name(i) ==
    CASE i = 0 -> "/dev/input/js0"
      [] i = 1 -> "/dev/input/js1"
      [] i = 2 -> "/dev/input/js2"
      [] i = 3 -> "/dev/input/js3"
      [] i = 4 -> "/dev/input/event1000"
      [] i = 5 -> "/dev/input/event1001"
      [] i = 6 -> "/dev/input/event1002"
      [] i = 7 -> "/dev/input/event1003"

socket_path(i) ==
    CASE i = 0 -> "/tmp/selkies_js0.sock"
      [] i = 1 -> "/tmp/selkies_js1.sock"
      [] i = 2 -> "/tmp/selkies_js2.sock"
      [] i = 3 -> "/tmp/selkies_js3.sock"
      [] i = 4 -> "/tmp/selkies_event1000.sock"
      [] i = 5 -> "/tmp/selkies_event1001.sock"
      [] i = 6 -> "/tmp/selkies_event1002.sock"
      [] i = 7 -> "/tmp/selkies_event1003.sock"

SlotType(i) == IF i < NUM_JS_INTERPOSERS THEN DEV_TYPE_JS ELSE DEV_TYPE_EV

VARIABLES
    interposers,   \* the static slot table
    fdt,           \* the kernel's descriptor table of the host process
    th,            \* per host thread: position in a handler, arguments, locals, result
    held,          \* history, per slot: the descriptor the application got from a
                   \* successful open of the slot's path and has not passed to
                   \* close() since; -1 if none
    real           \* the original functions that init_interposer resolved: the
                   \* names of the real_* pointers that are not NULL

vars == <<interposers, fdt, th, held, real>>

(***************************************************************************)
(* The kernel side of a descriptor.  slot and oflags are history: the slot *)
(* a socket was created for and the flags of the open() that created it.   *)
(***************************************************************************)
FreeFd ==
    [kind |-> "free", slot |-> -1, oflags |-> 0, nonblock |-> FALSE,
     conn |-> FALSE, peer |-> "none", cfg |-> 0, sent |-> 0, rcvd |-> 0,
     evq |-> 0, tx |-> <<>>]

NewFile(flags) == [FreeFd EXCEPT !.kind = "file", !.oflags = flags]

NewSocket(i, flags) == [FreeFd EXCEPT !.kind = "sock", !.slot = i, !.oflags = flags]

IsOpenFd(fd) == fd \in Fds /\ fdt[fd].kind # "free"
IsSocket(fd) == fd \in Fds /\ fdt[fd].kind = "sock"
HasFreeFd == \E fd \in Fds : fdt[fd].kind = "free"
LowestFreeFd == CHOOSE fd \in Fds : fdt[fd].kind = "free" /\
                    \A g \in Fds : fdt[g].kind = "free" => fd <= g

\* bytes a read of the descriptor would find
Avail(fd) == IF fdt[fd].rcvd < fdt[fd].sent THEN fdt[fd].sent - fdt[fd].rcvd
             ELSE fdt[fd].evq

\* a read/recv of the descriptor would not return now
WouldWait(fd) == IsSocket(fd) /\ Avail(fd) = 0 /\ fdt[fd].peer = "open"

EventSize(i) == IF SlotType(i) = DEV_TYPE_JS THEN SIZEOF_JS_EVENT ELSE SIZEOF_INPUT_EVENT

(***************************************************************************)
(* Thread records.  pc "idle": outside the interposer; "done": a handler   *)
(* has returned ret/errno to the caller (and out, what an ioctl wrote to    *)
(* the caller's buffer).  fwd names the original function the call was     *)
(* passed to, fwdargs holds the arguments of that call and nfwd counts     *)
(* such calls; mode is the third argument of open, -1 when the caller      *)
(* passed none; i is the slot the call was matched to, reused and          *)
(* made tell whether an open took the reuse branch and which descriptor    *)
(* its socket() returned, calls counts the thread's calls up to MaxCalls.  *)
(***************************************************************************)
IdleThread ==
    [pc |-> "idle", op |-> "none", path |-> "", flags |-> 0, fd |-> -1,
     count |-> 0, epop |-> 0, i |-> -1, sockfd |-> -1, total_slept_us |-> 0,
     attempt |-> 0, request |-> [dir |-> 0, type |-> 0, nr |-> 0, size |-> 0], arg |-> [null |-> TRUE, val |-> 0], out |-> <<>>,
     bytes_read_total |-> 0, socket_was_nonblocking |-> FALSE,
     mode |-> -1, fwd |-> "none", fwdargs |-> <<>>, nfwd |-> 0, reused |-> FALSE, made |-> -1, ret |-> 0, errno |-> "0",
     calls |-> 0]

\* a call enters a handler: arguments on the stack, locals fresh; the caller
\* cleared errno before the call
Enter(r, op, pc) ==
    [IdleThread EXCEPT !.pc = pc, !.op = op, !.calls = Min(r.calls + 1, MaxCalls)]

\* the handler returns v; errno is e
Return(r, v, e) ==
    [r EXCEPT !.pc = "done", !.ret = v, !.errno = e, !.sockfd = -1,
              !.total_slept_us = 0, !.attempt = 0, !.bytes_read_total = 0,
              !.socket_was_nonblocking = FALSE]

\* the pointers init_interposer loads with dlsym(RTLD_NEXT, ...)
RealFunctions ==
    {"real_open", "real_ioctl", "real_epoll_ctl", "real_close", "real_read", "real_write",
     "real_access", "real_open64"}

\* every original function was resolved when the library was loaded
Init ==
    /\ interposers = [i \in Slots |->
          [type |-> SlotType(i), sockfd |-> -1, open_flags |-> 0, corr |-> 0,
           js_config |-> ZeroConfig]]
    /\ fdt = [fd \in Fds |-> FreeFd]
    /\ th = [t \in Threads |-> IdleThread]
    /\ held = [i \in Slots |-> -1]
    /\ real = RealFunctions

SetTh(t, r) == th' = [th EXCEPT ![t] = r]
SetSlot(i, r) == interposers' = [interposers EXCEPT ![i] = r]

\* the slot whose open_dev_name equals the path (strcmp), -1 if none
SlotOfPath(path) ==
    IF \E i \in Slots : open_dev_name(i) = path
    THEN CHOOSE i \in Slots : open_dev_name(i) = path /\
             \A j \in Slots : open_dev_name(j) = path => i <= j
    ELSE -1

\* the first slot the loop of close() matches: fd >= 0 && fd == sockfd
SlotOfFdForClose(fd) ==
    IF \E i \in Slots : fd >= 0 /\ fd = interposers[i].sockfd
    THEN CHOOSE i \in Slots : fd >= 0 /\ fd = interposers[i].sockfd /\
             \A j \in Slots : (fd >= 0 /\ fd = interposers[j].sockfd) => i <= j
    ELSE -1

\* the first slot the loops of read(), epoll_ctl() match:
\* fd == sockfd && sockfd != -1
SlotOfFd(fd) ==
    IF \E i \in Slots : fd = interposers[i].sockfd /\ interposers[i].sockfd # -1
    THEN CHOOSE i \in Slots : fd = interposers[i].sockfd /\ interposers[i].sockfd # -1 /\
             \A j \in Slots : (fd = interposers[j].sockfd /\ interposers[j].sockfd # -1) => i <= j
    ELSE -1

\* the descriptor table after the kernel's close(fd)
KernelClose(f, fd) == IF fd \in Fds THEN [f EXCEPT ![fd] = FreeFd] ELSE f

\* make_socket_nonblocking: fcntl(F_GETFL), then F_SETFL with O_NONBLOCK
\* added when it is not set; a descriptor that is not open fails F_GETFL.
make_socket_nonblocking(f, fd) ==
    IF fd \in Fds /\ f[fd].kind # "free"
    THEN IF ~f[fd].nonblock THEN [f EXCEPT ![fd].nonblock = TRUE] ELSE f
    ELSE f

(***************************************************************************)
(* open / open64                                                           *)
(***************************************************************************)
\* no reuse branch: every open of a monitored path connects anew
AlreadyOpen_Never(i) == FALSE

\* common_open_logic's reuse test: interposers[i].sockfd != -1
AlreadyOpen(i) == interposers[i].sockfd # -1

\* the byte taken from sizeof(int)
arch_byte_SizeofInt == <<4>>

\* unsigned char arch_byte[1] = { (unsigned char)sizeof(long) }
arch_byte == <<ARCH_BYTE>>

\* the handler calls the original function fn with args
Forward(r, fn, args) == [r EXCEPT !.fwd = fn, !.fwdargs = args, !.nfwd = @ + 1]

\* no third argument
NoMode == -1
\* glibc's __OPEN_NEEDS_MODE: open reads its third argument under O_CREAT
\* and under O_TMPFILE
NeedsMode(flags) ==
    HasFlag(flags, O_CREAT) \/ (HasFlag(flags, O_TMPFILE_BIT) /\ HasFlag(flags, O_DIRECTORY))
\* the files that exist beside the monitored paths
Exists(path) == path = "/tmp/f"
\* what the original open finds as its third argument when it was called
\* with two and reads a third: an indeterminate value
IndeterminateModes == {0, 384, 511}

\* the pointer an intercepted function tests first
EntryPointer(op) ==
    CASE op = "open" -> "real_open"
      [] op = "open64" -> "real_open64"
      [] op = "close" -> "real_close"
      [] op = "read" -> "real_read"
      [] op = "epoll_ctl" -> "real_epoll_ctl"
      [] op = "ioctl" -> "real_ioctl"

\* the entry test of an intercepted function: if (!real_x); open64 tests
\* !real_open64 && !real_open
OriginalMissing_Open64Alone(op) == EntryPointer(op) \notin real
OriginalMissing(op) ==
    IF op = "open64" THEN "real_open64" \notin real /\ "real_open" \notin real
    ELSE EntryPointer(op) \notin real

\* errno = EFAULT; return -1;
EntryUnresolved(t) ==
    LET r == th[t] IN
    /\ r.pc \in {"open", "close", "read", "epoll_ctl", "ioctl"}
    /\ OriginalMissing(r.op)
    /\ SetTh(t, Return(r, -1, "EFAULT"))
    /\ UNCHANGED <<interposers, fdt, held, real>>

\* the calls made through a pointer no test guards: real_read in
\* read_socket_config, real_write of the architecture byte, real_close at
\* connect_fail
UnguardedCall(r) ==
    CASE r.pc = "cfg_read" -> "real_read"
      [] r.pc = "arch" -> "real_write"
      [] r.pc = "connect_fail" /\ interposers[r.i].sockfd # -1 -> "real_close"
      [] OTHER -> "none"
CallsNull(r) == UnguardedCall(r) \notin real \cup {"none"}

\* a call through a NULL function pointer: the process ends with SIGSEGV
NullCall(t) ==
    LET r == th[t] IN
    /\ CallsNull(r)
    /\ SetTh(t, [r EXCEPT !.pc = "crashed", !.fwd = UnguardedCall(r)])
    /\ UNCHANGED <<interposers, fdt, held, real>>

\* the pass-through of open/open64: mode is read from the caller's
\* arguments under O_CREAT only, and real_open is called with it or with
\* two arguments
OpenPassThrough(t, r, orig) ==
    \E m \in (IF HasFlag(r.flags, O_CREAT) THEN {r.mode}
              ELSE IF NeedsMode(r.flags) THEN IndeterminateModes ELSE {NoMode}) :
        LET q == Forward(r, orig, <<r.path, r.flags, m>>)
        IN  IF ~(Exists(r.path) \/ NeedsMode(r.flags))
            THEN SetTh(t, Return(q, -1, "ENOENT")) /\ UNCHANGED fdt
            ELSE IF ~HasFreeFd
            THEN SetTh(t, Return(q, -1, "EMFILE")) /\ UNCHANGED fdt
            ELSE /\ fdt' = [fdt EXCEPT ![LowestFreeFd] = NewFile(r.flags)]
                 /\ SetTh(t, Return(q, LowestFreeFd, r.errno))

CallOpenMode(t, op, path, flags, mode) ==
    /\ th[t].pc = "idle"
    /\ SetTh(t, [Enter(th[t], op, "open") EXCEPT !.path = path, !.flags = flags,
                                                 !.mode = mode])
    /\ UNCHANGED <<interposers, fdt, held, real>>

CallOpen(t, op, path, flags) ==
    /\ th[t].pc = "idle"
    /\ SetTh(t, [Enter(th[t], op, "open") EXCEPT !.path = path, !.flags = flags])
    /\ UNCHANGED <<interposers, fdt, held, real>>

\* common_open_logic up to the reuse test, and the pass-through of open/open64
OpenLookup(t) ==
    LET r == th[t]
        i == SlotOfPath(r.path)
        orig == IF r.op = "open64" /\ "real_open64" \in real THEN "real_open64"
                ELSE "real_open"
    IN  /\ r.pc = "open"
        /\ ~OriginalMissing(r.op)
        /\ IF i = -1
           THEN /\ OpenPassThrough(t, r, orig)
                /\ UNCHANGED <<interposers, held, real>>
           ELSE IF AlreadyOpen(i)
                THEN /\ SetTh(t, Return([r EXCEPT !.i = i, !.reused = TRUE],
                                      interposers[i].sockfd, r.errno))
                     /\ UNCHANGED <<interposers, fdt, held, real>>
                ELSE /\ SetTh(t, [r EXCEPT !.i = i, !.pc = "open_flags"])
                     /\ UNCHANGED <<interposers, fdt, held, real>>

\* interposers[i].open_flags = flags
OpenSetFlags(t) ==
    LET r == th[t] IN
    /\ r.pc = "open_flags"
    /\ SetSlot(r.i, [interposers[r.i] EXCEPT !.open_flags = r.flags])
    /\ SetTh(t, [r EXCEPT !.pc = "socket"])
    /\ UNCHANGED <<fdt, held, real>>

\* connect_interposer_socket: interposer->sockfd = socket(AF_UNIX, SOCK_STREAM, 0)
CreateSocket(t) ==
    LET r == th[t] IN
    /\ r.pc = "socket"
    /\ \/ /\ HasFreeFd
          /\ fdt' = [fdt EXCEPT ![LowestFreeFd] = NewSocket(r.i, r.flags)]
          /\ SetSlot(r.i, [interposers[r.i] EXCEPT !.sockfd = LowestFreeFd])
          /\ SetTh(t, [r EXCEPT !.pc = "connect", !.total_slept_us = 0,
                                !.attempt = 0, !.made = LowestFreeFd])
       \/ /\ SetSlot(r.i, [interposers[r.i] EXCEPT !.sockfd = -1])
          /\ SetTh(t, [r EXCEPT !.pc = "open_failed"])
          /\ UNCHANGED fdt
    /\ UNCHANGED <<held, real>>

\* the connect loop left: its locals are dead
LeaveConnectLoop(r, pc, e) ==
    [r EXCEPT !.pc = pc, !.errno = e, !.total_slept_us = 0, !.attempt = 0]

\* the timeout test written with > in place of >=
Connect_LateTimeout(t, cfgs, errs) ==
    LET r == th[t]
        fd == interposers[r.i].sockfd
        timeout_us == SOCKET_CONNECT_TIMEOUT_MS * 1000
    IN  /\ r.pc = "connect"
        /\ IF ~IsSocket(fd) \/ fdt[fd].conn
           THEN /\ SetTh(t, LeaveConnectLoop(r, "connect_fail",
                       IF ~IsOpenFd(fd) THEN "EBADF"
                       ELSE IF ~IsSocket(fd) THEN "ENOTSOCK" ELSE "EISCONN"))
                /\ UNCHANGED <<interposers, fdt, held, real>>
           ELSE \/ \E c \in cfgs :
                     /\ fdt' = [fdt EXCEPT ![fd].conn = TRUE, ![fd].peer = "open",
                                           ![fd].cfg = c]
                     /\ SetTh(t, LeaveConnectLoop(r, "cfg_begin", r.errno))
                     /\ UNCHANGED <<interposers, held, real>>
                \/ \E e \in errs :
                     /\ IF e \in {"ENOENT", "ECONNREFUSED"}
                        THEN IF r.total_slept_us > timeout_us
                             THEN SetTh(t, LeaveConnectLoop(r, "connect_fail", e))
                             ELSE \* usleep(sleep_interval_us)
                                  SetTh(t, [r EXCEPT !.errno = e,
                                      !.total_slept_us = r.total_slept_us + sleep_interval_us,
                                      !.attempt = r.attempt + 1])
                        ELSE SetTh(t, LeaveConnectLoop(r, "connect_fail", e))
                     /\ UNCHANGED <<interposers, fdt, held, real>>

\* one pass of the connect loop; cfgs are the records the producer may serve,
\* errs the errors connect() may meet at the socket path
Connect(t, cfgs, errs) ==
    LET r == th[t]
        fd == interposers[r.i].sockfd
        timeout_us == SOCKET_CONNECT_TIMEOUT_MS * 1000
    IN  /\ r.pc = "connect"
        /\ IF ~IsSocket(fd) \/ fdt[fd].conn
           THEN /\ SetTh(t, LeaveConnectLoop(r, "connect_fail",
                       IF ~IsOpenFd(fd) THEN "EBADF"
                       ELSE IF ~IsSocket(fd) THEN "ENOTSOCK" ELSE "EISCONN"))
                /\ UNCHANGED <<interposers, fdt, held, real>>
           ELSE \/ \E c \in cfgs :
                     /\ fdt' = [fdt EXCEPT ![fd].conn = TRUE, ![fd].peer = "open",
                                           ![fd].cfg = c]
                     /\ SetTh(t, LeaveConnectLoop(r, "cfg_begin", r.errno))
                     /\ UNCHANGED <<interposers, held, real>>
                \/ \E e \in errs :
                     /\ IF e \in {"ENOENT", "ECONNREFUSED"}
                        THEN IF r.total_slept_us >= timeout_us
                             THEN SetTh(t, LeaveConnectLoop(r, "connect_fail", e))
                             ELSE \* usleep(sleep_interval_us)
                                  SetTh(t, [r EXCEPT !.errno = e,
                                      !.total_slept_us = r.total_slept_us + sleep_interval_us,
                                      !.attempt = r.attempt + 1])
                        ELSE SetTh(t, LeaveConnectLoop(r, "connect_fail", e))
                     /\ UNCHANGED <<interposers, fdt, held, real>>

\* read_socket_config entered with sockfd = interposer->sockfd: F_GETFL and
\* the temporary switch to blocking mode
ConfigBegin(t) ==
    LET r == th[t]
        fd == interposers[r.i].sockfd
        nb == IsOpenFd(fd) /\ fdt[fd].nonblock
    IN  /\ r.pc = "cfg_begin"
        /\ fdt' = IF nb THEN [fdt EXCEPT ![fd].nonblock = FALSE] ELSE fdt
        /\ SetTh(t, [r EXCEPT !.pc = "cfg_read", !.sockfd = fd, !.bytes_read_total = 0,
                              !.socket_was_nonblocking = nb])
        /\ UNCHANGED <<interposers, held, real>>

\* one real_read of the loop of read_socket_config; no step while it blocks
ConfigRead(t) ==
    LET r == th[t]
        fd == r.sockfd
        remaining == SIZEOF_JS_CONFIG - r.bytes_read_total
    IN  /\ r.pc = "cfg_read"
        /\ ~CallsNull(r)
        /\ ~(IsSocket(fd) /\ WouldWait(fd) /\ ~fdt[fd].nonblock)
        /\ IF ~IsOpenFd(fd)
           THEN \* EBADF
                /\ SetTh(t, [r EXCEPT !.pc = "cfg_end"])
                /\ UNCHANGED <<interposers, fdt, held, real>>
           ELSE IF ~IsSocket(fd) \/ (Avail(fd) = 0 /\ fdt[fd].peer = "closed")
           THEN \* current_read == 0
                /\ SetTh(t, [r EXCEPT !.pc = "cfg_end"])
                /\ UNCHANGED <<interposers, fdt, held, real>>
           ELSE IF Avail(fd) = 0 /\ fdt[fd].peer = "none"
           THEN \* ENOTCONN
                /\ SetTh(t, [r EXCEPT !.pc = "cfg_end"])
                /\ UNCHANGED <<interposers, fdt, held, real>>
           ELSE IF Avail(fd) = 0
           THEN \* EAGAIN: usleep(100000); continue
                /\ UNCHANGED <<interposers, fdt, th, held, real>>
           ELSE LET n == Min(Avail(fd), remaining)
                    inRecord == fdt[fd].rcvd < fdt[fd].sent
                    src == IF inRecord /\ fdt[fd].rcvd = r.bytes_read_total
                           THEN WireConfigs[fdt[fd].cfg] ELSE ForeignBytes
                    total == r.bytes_read_total + n
                IN  /\ SetSlot(r.i, [interposers[r.i] EXCEPT !.js_config =
                           CopyConfigBytes(@, src, r.bytes_read_total, total)])
                    /\ fdt' = IF inRecord THEN [fdt EXCEPT ![fd].rcvd = @ + n]
                              ELSE [fdt EXCEPT ![fd].evq = @ - n]
                    /\ SetTh(t, [r EXCEPT !.bytes_read_total = total,
                           !.pc = IF total = SIZEOF_JS_CONFIG THEN "cfg_end" ELSE "cfg_read"])
                    /\ UNCHANGED <<held, real>>

\* the real_read, blocked with no byte to deliver, is interrupted by a
\* signal: errno is EINTR, neither EAGAIN nor EWOULDBLOCK, so the loop is left
ConfigReadInterrupted(t) ==
    LET r == th[t] IN
    /\ r.pc = "cfg_read"
    /\ ~CallsNull(r)
    /\ WouldWait(r.sockfd) /\ ~fdt[r.sockfd].nonblock
    /\ SetTh(t, [r EXCEPT !.pc = "cfg_end", !.errno = "EINTR"])
    /\ UNCHANGED <<interposers, fdt, held, real>>

\* name termination after a complete read, config_read_cleanup, and the
\* return of read_socket_config into connect_interposer_socket
ConfigEnd_NoRestore(t) ==
    LET r == th[t]
        ok == r.bytes_read_total = SIZEOF_JS_CONFIG
    IN  /\ r.pc = "cfg_end"
        /\ IF ok
           THEN SetSlot(r.i, [interposers[r.i] EXCEPT !.js_config = ForceNameTermination(@)])
           ELSE UNCHANGED interposers
        /\ SetTh(t, [r EXCEPT !.pc = IF ok THEN "arch" ELSE "connect_fail",
                              !.sockfd = -1, !.bytes_read_total = 0,
                              !.socket_was_nonblocking = FALSE])
        /\ UNCHANGED <<fdt, held, real>>

ConfigEnd(t) ==
    LET r == th[t]
        ok == r.bytes_read_total = SIZEOF_JS_CONFIG
    IN  /\ r.pc = "cfg_end"
        /\ IF ok
           THEN SetSlot(r.i, [interposers[r.i] EXCEPT !.js_config = ForceNameTermination(@)])
           ELSE UNCHANGED interposers
        /\ fdt' = IF r.socket_was_nonblocking /\ IsOpenFd(r.sockfd)
                  THEN [fdt EXCEPT ![r.sockfd].nonblock = TRUE] ELSE fdt
        /\ SetTh(t, [r EXCEPT !.pc = IF ok THEN "arch" ELSE "connect_fail",
                              !.sockfd = -1, !.bytes_read_total = 0,
                              !.socket_was_nonblocking = FALSE])
        /\ UNCHANGED <<held, real>>

\* real_write(interposer->sockfd, arch_byte, 1)
WriteArchByte(t) ==
    LET r == th[t]
        fd == interposers[r.i].sockfd
    IN  /\ r.pc = "arch"
        /\ ~CallsNull(r)
        /\ IF IsSocket(fd) /\ fdt[fd].peer = "open"
           THEN /\ fdt' = [fdt EXCEPT ![fd].tx = @ \o arch_byte]
                /\ SetTh(t, [r EXCEPT !.pc = "open_finish"])
           ELSE IF IsOpenFd(fd) /\ ~IsSocket(fd)
           THEN /\ SetTh(t, [r EXCEPT !.pc = "open_finish"])
                /\ UNCHANGED <<fdt, held, real>>
           ELSE \* EBADF, ENOTCONN or EPIPE
                /\ SetTh(t, [r EXCEPT !.pc = "connect_fail"])
                /\ UNCHANGED <<fdt, held, real>>
        /\ UNCHANGED <<interposers, held, real>>

\* connect_fail: if (interposer->sockfd != -1) real_close(interposer->sockfd)
ConnectFail(t) ==
    LET r == th[t]
        fd == interposers[r.i].sockfd
    IN  /\ r.pc = "connect_fail"
        /\ ~CallsNull(r)
        /\ IF fd # -1
           THEN /\ fdt' = KernelClose(fdt, fd)
                /\ SetTh(t, [r EXCEPT !.pc = "connect_fail_reset",
                                      !.errno = IF IsOpenFd(fd) THEN r.errno ELSE "EBADF"])
           ELSE /\ SetTh(t, [r EXCEPT !.pc = "open_failed"])
                /\ UNCHANGED fdt
        /\ UNCHANGED <<interposers, held, real>>

\* connect_fail returning without the assignment of -1
ConnectFailReset_KeepsFd(t) ==
    LET r == th[t] IN
    /\ r.pc = "connect_fail_reset"
    /\ SetTh(t, [r EXCEPT !.pc = "open_failed"])
    /\ UNCHANGED <<interposers, fdt, held, real>>

\* connect_fail: interposer->sockfd = -1; return -1
ConnectFailReset(t) ==
    LET r == th[t] IN
    /\ r.pc = "connect_fail_reset"
    /\ SetSlot(r.i, [interposers[r.i] EXCEPT !.sockfd = -1])
    /\ SetTh(t, [r EXCEPT !.pc = "open_failed"])
    /\ UNCHANGED <<fdt, held, real>>

\* common_open_logic after connect_interposer_socket returned -1
OpenFailed(t) ==
    LET r == th[t] IN
    /\ r.pc = "open_failed"
    /\ SetSlot(r.i, [interposers[r.i] EXCEPT !.open_flags = 0])
    /\ SetTh(t, Return(r, -1, "EIO"))
    /\ UNCHANGED <<fdt, held, real>>

\* common_open_logic after connect_interposer_socket returned 0
OpenFinish(t) ==
    LET r == th[t]
        fd == interposers[r.i].sockfd
        nb == HasFlag(interposers[r.i].open_flags, O_NONBLOCK)
    IN  /\ r.pc = "open_finish"
        /\ fdt' = IF nb THEN make_socket_nonblocking(fdt, fd) ELSE fdt
        /\ SetTh(t, Return(r, fd, r.errno))
        /\ UNCHANGED <<interposers, held, real>>

(***************************************************************************)
(* close                                                                   *)
(***************************************************************************)
CallClose(t, fd) ==
    /\ th[t].pc = "idle"
    /\ SetTh(t, [Enter(th[t], "close", "close") EXCEPT !.fd = fd])
    /\ held' = [i \in Slots |-> IF held[i] = fd THEN -1 ELSE held[i]]
    /\ UNCHANGED <<interposers, fdt, real>>

\* the slot loop of close() and real_close(fd), on a match (ret kept for the
\* reset) or as the pass-through.  The kernel releases an open descriptor
\* whether or not it reports an error.
CloseLookup(t) ==
    LET r == th[t]
        i == SlotOfFdForClose(r.fd)
        q == IF i = -1 THEN Forward(r, "real_close", <<r.fd>>) ELSE [r EXCEPT !.i = i]
    IN  /\ r.pc = "close"
        /\ ~OriginalMissing(r.op)
        /\ fdt' = KernelClose(fdt, r.fd)
        /\ IF ~IsOpenFd(r.fd)
           THEN SetTh(t, Return(q, -1, "EBADF"))
           ELSE \/ SetTh(t, IF i = -1 THEN Return(q, 0, r.errno)
                            ELSE [q EXCEPT !.pc = "close_reset_fd"])
                \/ SetTh(t, Return(q, -1, "EIO"))
        /\ UNCHANGED <<interposers, held, real>>

\* ret == 0: interposers[i].sockfd = -1
CloseResetFd_KeepsSession(t) ==
    LET r == th[t] IN
    /\ r.pc = "close_reset_fd"
    /\ SetTh(t, [r EXCEPT !.pc = "close_reset_flags"])
    /\ UNCHANGED <<interposers, fdt, held, real>>
CloseResetFd(t) ==
    LET r == th[t] IN
    /\ r.pc = "close_reset_fd"
    /\ SetSlot(r.i, [interposers[r.i] EXCEPT !.sockfd = -1])
    /\ SetTh(t, [r EXCEPT !.pc = "close_reset_flags"])
    /\ UNCHANGED <<fdt, held, real>>

\* interposers[i].open_flags = 0
CloseResetFlags(t) ==
    LET r == th[t] IN
    /\ r.pc = "close_reset_flags"
    /\ SetSlot(r.i, [interposers[r.i] EXCEPT !.open_flags = 0])
    /\ SetTh(t, [r EXCEPT !.pc = "close_reset_config"])
    /\ UNCHANGED <<fdt, held, real>>

\* memset(&js_config, 0, sizeof(js_config_t)); return ret
CloseResetConfig_ClearsBlob(t) ==
    LET r == th[t] IN
    /\ r.pc = "close_reset_config"
    /\ SetSlot(r.i, [interposers[r.i] EXCEPT !.js_config = ZeroConfig, !.corr = 0])
    /\ SetTh(t, Return(r, 0, r.errno))
    /\ UNCHANGED <<fdt, held, real>>
CloseResetConfig(t) ==
    LET r == th[t] IN
    /\ r.pc = "close_reset_config"
    /\ SetSlot(r.i, [interposers[r.i] EXCEPT !.js_config = ZeroConfig])
    /\ SetTh(t, Return(r, 0, r.errno))
    /\ UNCHANGED <<fdt, held, real>>

(***************************************************************************)
(* read                                                                    *)
(***************************************************************************)
\* the descriptor table after a read/recv took n bytes from the socket
Consume(f, fd, n) ==
    IF f[fd].rcvd < f[fd].sent THEN [f EXCEPT ![fd].rcvd = @ + n]
    ELSE [f EXCEPT ![fd].evq = @ - n]

CallRead(t, fd, count) ==
    /\ th[t].pc = "idle"
    /\ SetTh(t, [Enter(th[t], "read", "read") EXCEPT !.fd = fd, !.count = count])
    /\ UNCHANGED <<interposers, fdt, held, real>>

\* the count < event_size test left out
ReadLookup_NoSizeTest(t) ==
    LET r == th[t]
        i == SlotOfFd(r.fd)
        q == [r EXCEPT !.i = i]
    IN  /\ r.pc = "read"
        /\ ~OriginalMissing(r.op)
        /\ IF i = -1
           THEN SetTh(t, [Forward(q, "real_read", <<r.fd, r.count>>) EXCEPT
                                                             !.pc = "read_forward"])
           ELSE IF r.count = 0
           THEN SetTh(t, Return(q, 0, r.errno))
           ELSE SetTh(t, [q EXCEPT !.pc = "read_recv"])
        /\ UNCHANGED <<interposers, fdt, held, real>>

\* the slot loop of read(), the record size and the count tests
ReadLookup(t) ==
    LET r == th[t]
        i == SlotOfFd(r.fd)
        q == [r EXCEPT !.i = i]
    IN  /\ r.pc = "read"
        /\ ~OriginalMissing(r.op)
        /\ IF i = -1
           THEN SetTh(t, [Forward(q, "real_read", <<r.fd, r.count>>) EXCEPT
                                                             !.pc = "read_forward"])
           ELSE IF r.count = 0
           THEN SetTh(t, Return(q, 0, r.errno))
           ELSE IF r.count < EventSize(i)
           THEN SetTh(t, Return(q, -1, "EINVAL"))
           ELSE SetTh(t, [q EXCEPT !.pc = "read_recv"])
        /\ UNCHANGED <<interposers, fdt, held, real>>

\* what the kernel's read/recv of up to n bytes returns, once it returns
KernelRead(t, r, fd, n) ==
    /\ ~(IsSocket(fd) /\ n > 0 /\ WouldWait(fd) /\ ~fdt[fd].nonblock)
    /\ IF ~IsOpenFd(fd)
       THEN SetTh(t, Return(r, -1, "EBADF")) /\ UNCHANGED <<fdt, held, real>>
       ELSE IF ~IsSocket(fd) \/ n = 0
       THEN SetTh(t, Return(r, 0, r.errno)) /\ UNCHANGED <<fdt, held, real>>
       ELSE IF Avail(fd) > 0
       THEN /\ fdt' = Consume(fdt, fd, Min(Avail(fd), n))
            /\ SetTh(t, Return(r, Min(Avail(fd), n), r.errno))
       ELSE IF fdt[fd].peer = "closed"
       THEN SetTh(t, Return(r, 0, r.errno)) /\ UNCHANGED <<fdt, held, real>>
       ELSE IF fdt[fd].peer = "none"
       THEN SetTh(t, Return(r, -1, "ENOTCONN")) /\ UNCHANGED <<fdt, held, real>>
       ELSE SetTh(t, Return(r, -1, "EAGAIN")) /\ UNCHANGED <<fdt, held, real>>

\* return real_read(fd, buf, count)
ReadForward(t) ==
    /\ th[t].pc = "read_forward"
    /\ KernelRead(t, th[t], th[t].fd, th[t].count)
    /\ UNCHANGED <<interposers, held, real>>

\* recv(interposer->sockfd, buf, event_size, 0) and the return of its result;
\* the F_GETFL before it only selects a log line
ReadRecv_ReleasesSession(t) ==
    LET r == th[t]
        fd == interposers[r.i].sockfd
    IN  /\ r.pc = "read_recv"
        /\ IF IsOpenFd(fd) /\ ~IsSocket(fd)
           THEN SetTh(t, Return(r, -1, "ENOTSOCK")) /\ UNCHANGED <<fdt, held, real>>
           ELSE KernelRead(t, r, fd, EventSize(r.i))
        /\ SetSlot(r.i, [interposers[r.i] EXCEPT !.sockfd = -1])
        /\ UNCHANGED <<held, real>>

ReadRecv(t) ==
    LET r == th[t]
        fd == interposers[r.i].sockfd
    IN  /\ r.pc = "read_recv"
        /\ IF IsOpenFd(fd) /\ ~IsSocket(fd)
           THEN SetTh(t, Return(r, -1, "ENOTSOCK")) /\ UNCHANGED <<fdt, held, real>>
           ELSE KernelRead(t, r, fd, EventSize(r.i))
        /\ UNCHANGED <<interposers, held, real>>

(***************************************************************************)
(* epoll_ctl                                                               *)
(***************************************************************************)
CallEpollCtl(t, op, fd) ==
    /\ th[t].pc = "idle"
    /\ SetTh(t, [Enter(th[t], "epoll_ctl", "epoll_ctl") EXCEPT !.fd = fd, !.epop = op])
    /\ UNCHANGED <<interposers, fdt, held, real>>

\* the slot loop run whatever the operation
EpollCtl_AnyOp(t) ==
    LET r == th[t]
        i == SlotOfFd(r.fd)
    IN  /\ r.pc = "epoll_ctl"
        /\ ~OriginalMissing(r.op)
        /\ fdt' = IF i # -1 THEN make_socket_nonblocking(fdt, r.fd) ELSE fdt
        /\ SetTh(t, [r EXCEPT !.i = i, !.pc = "epoll_forward"])
        /\ UNCHANGED <<interposers, held, real>>

\* op is ADD or MOD: the slot loop, make_socket_nonblocking(fd) on a match
EpollCtl(t) ==
    LET r == th[t]
        i == IF r.epop \in {EPOLL_CTL_ADD, EPOLL_CTL_MOD} THEN SlotOfFd(r.fd) ELSE -1
    IN  /\ r.pc = "epoll_ctl"
        /\ ~OriginalMissing(r.op)
        /\ fdt' = IF i # -1 THEN make_socket_nonblocking(fdt, r.fd) ELSE fdt
        /\ SetTh(t, [r EXCEPT !.i = i, !.pc = "epoll_forward"])
        /\ UNCHANGED <<interposers, held, real>>

\* return real_epoll_ctl(epfd, op, fd, event)
EpollCtlForward(t) ==
    LET r == th[t]
        q == Forward(r, "real_epoll_ctl", <<r.epop, r.fd>>)
    IN  /\ r.pc = "epoll_forward"
        /\ IF ~IsOpenFd(r.fd)
           THEN SetTh(t, Return(q, -1, "EBADF"))
           ELSE \/ SetTh(t, Return(q, 0, r.errno))
                \/ SetTh(t, Return(q, -1, IF r.epop = EPOLL_CTL_ADD THEN "EEXIST" ELSE "ENOENT"))
        /\ UNCHANGED <<interposers, fdt, held, real>>

(***************************************************************************)
(* ioctl: request codes (<linux/ioctl.h>: nr in bits 0-7, type in bits     *)
(* 8-15, size in bits 16-29, direction in bits 30-31; a code is kept as    *)
(* the record of its four bit fields, which the packing maps one to one to *)
(* the 32-bit codes), the kernel ABI constants of <linux/joystick.h> and <linux/input.h> on the LP64 build.  *)
(* The log lines of the emulators are taken not to touch errno: logging is *)
(* off unless JS_LOG is set when the library is loaded.                    *)
(***************************************************************************)
_IOC_NONE == 0
_IOC_WRITE == 1
_IOC_READ == 2
_IOC(dir, type, nr, size) ==
    [dir |-> dir % 4, type |-> type % 256, nr |-> nr % 256, size |-> size % 16384]
_IOC_NR(request) == request.nr
_IOC_TYPE(request) == request.type
_IOC_SIZE(request) == request.size

\* 'j' and 'E'
TYPE_J == 106
TYPE_E == 69

JS_VERSION == 131328
SIZEOF_JS_CORR == 36
SIZEOF_INT == 4
SIZEOF_INPUT_ID == 8
SIZEOF_INPUT_ABSINFO == 24
SIZEOF_FF_EFFECT == 48
EV_SYN == 0
EV_KEY == 1
EV_ABS == 3
EV_FF == 21
EV_MAX == 31
KEY_MAX == 767
ABS_MAX == 63
ABS_CNT == 64
ABS_X == 0
ABS_Y == 1
ABS_Z == 2
ABS_RX == 3
ABS_RY == 4
ABS_RZ == 5
ABS_HAT0X == 16
ABS_HAT0Y == 17
FF_RUMBLE == 80
FF_PERIODIC == 81
FF_SQUARE == 88
FF_TRIANGLE == 89
FF_SINE == 90
FF_GAIN == 96
INPUT_PROP_POINTING_STICK == 5
BUS_USB == 3
ABS_AXIS_MIN_DEFAULT == -32767
ABS_AXIS_MAX_DEFAULT == 32767
ABS_TRIGGER_MIN_DEFAULT == 0
ABS_TRIGGER_MAX_DEFAULT == 255
ABS_HAT_MIN_DEFAULT == -1
ABS_HAT_MAX_DEFAULT == 1
FAKE_UDEV_VENDOR_ID == 1118
FAKE_UDEV_PRODUCT_ID == 654
FAKE_UDEV_VERSION_ID == 276
BUS_BLUETOOTH == 5
FAKE_UDEV_BUS_TYPE_Bluetooth == BUS_BLUETOOTH
FAKE_UDEV_BUS_TYPE == BUS_USB
\* "Microsoft X-Box 360 pad"
FAKE_UDEV_DEVICE_NAME ==
    <<77, 105, 99, 114, 111, 115, 111, 102, 116, 32, 88, 45, 66, 111, 120, 32, 51, 54, 48, 32, 112, 97, 100>>

EVIOCGVERSION == _IOC(_IOC_READ, TYPE_E, 1, SIZEOF_INT)
EVIOCGID == _IOC(_IOC_READ, TYPE_E, 2, SIZEOF_INPUT_ID)
EVIOCGRAB == _IOC(_IOC_WRITE, TYPE_E, 144, SIZEOF_INT)
EVIOCSFF == _IOC(_IOC_WRITE, TYPE_E, 128, SIZEOF_FF_EFFECT)
EVIOCRMFF == _IOC(_IOC_WRITE, TYPE_E, 129, SIZEOF_INT)
EVIOCGEFFECTS == _IOC(_IOC_READ, TYPE_E, 132, SIZEOF_INT)
\* _IOC_NR of EVIOCGNAME(0), EVIOCGPHYS(0), EVIOCGUNIQ(0), EVIOCGPROP(0),
\* EVIOCGKEY(0), EVIOCGLED(0), EVIOCGSW(0), EVIOCGBIT(0,0), EVIOCGABS(0)
NR_EVIOCGNAME == 6
NR_EVIOCGPHYS == 7
NR_EVIOCGUNIQ == 8
NR_EVIOCGPROP == 9
NR_EVIOCGKEY == 24
NR_EVIOCGLED == 25
NR_EVIOCGSW == 27
NR_EVIOCGBIT == 32
NR_EVIOCGABS == 64

\* a byte of the caller's buffer the call has not written
UNTOUCHED == -1

\* the caller's argument: a null pointer, or a buffer; val is what the buffer
\* holds where the call reads it (the correction blob, the effect id) or the
\* integer passed in place of a pointer
NullArg == [null |-> TRUE, val |-> 0]
BufArg(v) == [null |-> FALSE, val |-> v]

\* what an emulator leaves: the return value, errno, the caller's buffer as
\* written from its start (out), and the slot's correction blob
IoctlResult(ret_val, e, out, corr) ==
    [ret |-> ret_val, errno |-> e, out |-> out, corr |-> corr]

\* strncpy(dst, src, n): n bytes written, zero-filled after the end of src
strncpy(src, n) == [k \in 1 .. n |-> IF k <= Len(src) THEN src[k] ELSE 0]

\* strlen of a buffer that holds a terminator
strlen(buf) == (CHOOSE k \in 1 .. Len(buf) :
                   buf[k] = 0 /\ \A m \in 1 .. (k - 1) : buf[m] # 0) - 1

\* snprintf(dst, n, "%s", text) with n > 0: the text cut to n - 1 characters,
\* and the terminator
snprintf(text, n) == SubSeq(text, 1, Min(Len(text), n - 1)) \o <<0>>

\* memset(arg, 0, len)
ZeroBuf(len) == [k \in 1 .. len |-> 0]

\* ((unsigned char *)arg)[code / 8] |= (1 << (code % 8))
SetBit(buf, code) ==
    LET k == (code \div 8) + 1
        b == 2 ^ (code % 8)
    IN  IF (buf[k] \div b) % 2 = 1 THEN buf ELSE [buf EXCEPT ![k] = @ + b]

TestBit(buf, code) ==
    (code \div 8) + 1 <= Len(buf) /\ (buf[(code \div 8) + 1] \div (2 ^ (code % 8))) % 2 = 1

\* js_config.axes_map[i]: the entries after the received ones are zero; an
\* index from INTERPOSER_MAX_AXES on reads the bytes that follow the array
\* in js_config_t, the padding, which the producer sends as zero
axes_map_at(cfg, i) ==
    IF i < INTERPOSER_MAX_AXES /\ i < Len(cfg.axes_map) THEN cfg.axes_map[i + 1] ELSE 0

\* js_config.btn_map[i]: an index from INTERPOSER_MAX_BTNS on reads the
\* bytes that follow the array in js_config_t, two bytes of axes_map (and
\* then of the padding) as one little-endian uint16_t
btn_map_at(cfg, i) ==
    IF i < INTERPOSER_MAX_BTNS
    THEN IF i < Len(cfg.btn_map) THEN cfg.btn_map[i + 1] ELSE 0
    ELSE axes_map_at(cfg, 2 * (i - INTERPOSER_MAX_BTNS))
            + 256 * axes_map_at(cfg, 2 * (i - INTERPOSER_MAX_BTNS) + 1)

\* exit_js_ioctl / exit_ev_ioctl: a negative result with errno 0 gets
\* ENOTTY, a non-negative result clears errno
exit_ioctl_AsIs(res) == res

exit_ioctl(res) ==
    IF res.ret < 0 /\ res.errno = "0" THEN [res EXCEPT !.errno = "ENOTTY"]
    ELSE IF res.ret >= 0 THEN [res EXCEPT !.errno = "0"]
    ELSE res

\* the name ioctls returning 0 in place of the copied length
get_name_ReturnsZero(corr, arg, len) ==
    IF arg.null \/ len <= 0 THEN IoctlResult(-1, "EFAULT", <<>>, corr)
    ELSE IoctlResult(0, "0", strncpy(FAKE_UDEV_DEVICE_NAME, len - 1) \o <<0>>, corr)

\* JSIOCGNAME / EVIOCGNAME: strncpy of the fixed name, the terminator at
\* len - 1, strlen of the result
get_name(corr, arg, len) ==
    IF arg.null \/ len <= 0 THEN IoctlResult(-1, "EFAULT", <<>>, corr)
    ELSE LET buf == strncpy(FAKE_UDEV_DEVICE_NAME, len - 1) \o <<0>>
         IN  IoctlResult(strlen(buf), "0", buf, corr)

\* JSIOCGAXMAP without the size test
js_get_axmap_Unchecked(cfg, corr, request, arg) ==
    IF arg.null THEN IoctlResult(-1, "EFAULT", <<>>, corr)
    ELSE IoctlResult(0, "0", [k \in 1 .. cfg.num_axes |-> axes_map_at(cfg, k - 1)], corr)

\* JSIOCGAXMAP
js_get_axmap(cfg, corr, request, arg) ==
    IF arg.null THEN IoctlResult(-1, "EFAULT", <<>>, corr)
    ELSE IF _IOC_SIZE(request) < cfg.num_axes \/ cfg.num_axes > INTERPOSER_MAX_AXES
    THEN IoctlResult(-1, "EINVAL", <<>>, corr)
    ELSE IoctlResult(0, "0", [k \in 1 .. cfg.num_axes |-> axes_map_at(cfg, k - 1)], corr)

\* JSIOCGBTNMAP
js_get_btnmap(cfg, corr, request, arg) ==
    IF arg.null THEN IoctlResult(-1, "EFAULT", <<>>, corr)
    ELSE IF _IOC_SIZE(request) < cfg.num_btns * 2 \/ cfg.num_btns > INTERPOSER_MAX_BTNS
    THEN IoctlResult(-1, "EINVAL", <<>>, corr)
    ELSE IoctlResult(0, "0", [k \in 1 .. cfg.num_btns |-> btn_map_at(cfg, k - 1)], corr)

\* JSIOCSAXMAP, JSIOCSBTNMAP taken for the calibration store
js_set_map_Stores(corr, arg) == IoctlResult(0, "0", <<>>, arg.val)

\* JSIOCSAXMAP, JSIOCSBTNMAP
js_set_map(corr, arg) == IoctlResult(-1, "EPERM", <<>>, corr)

\* intercept_js_ioctl up to exit_js_ioctl
js_ioctl_body(cfg, corr, request, arg) ==
    LET nr == _IOC_NR(request)
        size == _IOC_SIZE(request)
    IN  IF _IOC_TYPE(request) # TYPE_J THEN IoctlResult(-1, "ENOTTY", <<>>, corr)
        ELSE CASE nr = 1 ->
                    IF arg.null THEN IoctlResult(-1, "EFAULT", <<>>, corr)
                    ELSE IoctlResult(0, "0", <<JS_VERSION>>, corr)
               [] nr = 17 ->
                    IF arg.null THEN IoctlResult(-1, "EFAULT", <<>>, corr)
                    ELSE IoctlResult(0, "0", <<cfg.num_axes % 256>>, corr)
               [] nr = 18 ->
                    IF arg.null THEN IoctlResult(-1, "EFAULT", <<>>, corr)
                    ELSE IoctlResult(0, "0", <<cfg.num_btns % 256>>, corr)
               [] nr = 19 -> get_name(corr, arg, size)
               [] nr = 33 ->
                    IF arg.null \/ size # SIZEOF_JS_CORR
                    THEN IoctlResult(-1, "EINVAL", <<>>, corr)
                    ELSE IoctlResult(0, "0", <<>>, arg.val)
               [] nr = 34 ->
                    IF arg.null \/ size # SIZEOF_JS_CORR
                    THEN IoctlResult(-1, "EINVAL", <<>>, corr)
                    ELSE IoctlResult(0, "0", <<corr>>, corr)
               [] nr = 49 -> js_set_map(corr, arg)
               [] nr = 50 -> js_get_axmap(cfg, corr, request, arg)
               [] nr = 51 -> js_set_map(corr, arg)
               [] nr = 52 -> js_get_btnmap(cfg, corr, request, arg)
               [] OTHER -> IoctlResult(-1, "ENOTTY", <<>>, corr)

intercept_js_ioctl(cfg, corr, request, arg) ==
    exit_ioctl(js_ioctl_body(cfg, corr, request, arg))

\* a bitmap of len bytes with exactly the bits of the codes in a set
BitsOf(codes, len) ==
    [k \in 1 .. len |->
        LET Bit(b) == IF 8 * (k - 1) + b \in codes THEN 2 ^ b ELSE 0
        IN  Bit(0) + Bit(1) + Bit(2) + Bit(3) + Bit(4) + Bit(5) + Bit(6) + Bit(7)]

\* the loop of EVIOCGBIT(EV_KEY) over i < num_btns on the zeroed buffer: it
\* ORs in the bit of btn_map[i] when that passes the two tests
KeyBits(cfg, len) ==
    LET codes == {btn_map_at(cfg, i) : i \in 0 .. (cfg.num_btns - 1)}
    IN  BitsOf({key_code \in codes : key_code >= 0 /\ key_code < KEY_MAX
                                        /\ key_code \div 8 < len}, len)

\* the loop of EVIOCGBIT(EV_ABS) over i < num_axes, likewise
AbsBits(cfg, len) ==
    LET codes == {axes_map_at(cfg, i) : i \in 0 .. (cfg.num_axes - 1)}
    IN  BitsOf({abs_code \in codes : abs_code >= 0 /\ abs_code < ABS_MAX
                                        /\ abs_code \div 8 < len}, len)

\* the bits of a fixed list of codes, each under its own length test
RECURSIVE FixedBits(_, _, _)
FixedBits(list, len, buf) ==
    IF list = <<>> THEN buf
    ELSE FixedBits(Tail(list), len,
                   IF Head(list) \div 8 < len THEN SetBit(buf, Head(list)) ELSE buf)

\* EVIOCGBIT(ev_type_query, len)
ev_get_bit(cfg, corr, ev_type_query, arg, len) ==
    IF arg.null \/ len <= 0 THEN IoctlResult(-1, "EFAULT", <<>>, corr)
    ELSE LET zero == ZeroBuf(len)
             buf == CASE ev_type_query = 0 ->
                            FixedBits(<<EV_SYN, EV_KEY, EV_ABS, EV_FF>>, len, zero)
                       [] ev_type_query = EV_KEY -> KeyBits(cfg, len)
                       [] ev_type_query = EV_ABS -> AbsBits(cfg, len)
                       [] ev_type_query = EV_FF ->
                            FixedBits(<<FF_RUMBLE, FF_PERIODIC, FF_SQUARE, FF_TRIANGLE,
                                        FF_SINE, FF_GAIN>>, len, zero)
                       [] OTHER -> zero
         IN  IoctlResult(len, "0", buf, corr)

\* EVIOCGABS(abs_code): value, minimum, maximum, fuzz, flat, resolution
ev_get_abs_Generic(corr, abs_code, arg, size) ==
    IF arg.null \/ size < SIZEOF_INPUT_ABSINFO THEN IoctlResult(-1, "EFAULT", <<>>, corr)
    ELSE IoctlResult(0, "0", <<0, ABS_AXIS_MIN_DEFAULT, ABS_AXIS_MAX_DEFAULT, 16, 128, 1>>,
                     corr)

ev_get_abs(corr, abs_code, arg, size) ==
    IF arg.null \/ size < SIZEOF_INPUT_ABSINFO THEN IoctlResult(-1, "EFAULT", <<>>, corr)
    ELSE IoctlResult(0, "0",
            IF abs_code \in {ABS_X, ABS_Y, ABS_RX, ABS_RY}
            THEN <<0, ABS_AXIS_MIN_DEFAULT, ABS_AXIS_MAX_DEFAULT, 16, 128, 1>>
            ELSE IF abs_code \in {ABS_Z, ABS_RZ}
            THEN <<0, ABS_TRIGGER_MIN_DEFAULT, ABS_TRIGGER_MAX_DEFAULT, 0, 0, 1>>
            ELSE IF abs_code \in {ABS_HAT0X, ABS_HAT0Y}
            THEN <<0, ABS_HAT_MIN_DEFAULT, ABS_HAT_MAX_DEFAULT, 0, 0, 0>>
            ELSE <<0, ABS_AXIS_MIN_DEFAULT, ABS_AXIS_MAX_DEFAULT, 16, 128, 1>>,
            corr)

\* "virtual/input/selkies_ev%d/phys" and "SJI-EV%d" for a one-digit index
PhysText(gamepad_idx) ==
    <<118, 105, 114, 116, 117, 97, 108, 47, 105, 110, 112, 117, 116, 47, 115, 101, 108, 107, 105, 101, 115, 95, 101, 118>> \o <<48 + gamepad_idx>> \o <<47, 112, 104, 121, 115>>
UniqText(gamepad_idx) == <<83, 74, 73, 45, 69, 86>> \o <<48 + gamepad_idx>>

\* EVIOCGPHYS(len) on slot i
ev_get_phys(i, corr, arg, len) ==
    IF arg.null \/ len <= 0 THEN IoctlResult(-1, "EFAULT", <<>>, corr)
    ELSE LET gamepad_idx == IF i >= 0 /\ i < NUM_INTERPOSERS /\ SlotType(i) = DEV_TYPE_EV
                            THEN i - NUM_JS_INTERPOSERS ELSE -1
         IN  IF gamepad_idx < 0 THEN IoctlResult(-1, "EINVAL", <<>>, corr)
             ELSE LET buf == snprintf(PhysText(gamepad_idx), len)
                  IN  IoctlResult(strlen(buf), "0", buf, corr)

\* EVIOCGUNIQ(len) on slot i: snprintf, then the terminator at len - 1
ev_get_uniq(i, corr, arg, len) ==
    IF arg.null \/ len <= 0 THEN IoctlResult(-1, "EFAULT", <<>>, corr)
    ELSE LET gamepad_idx == IF i >= NUM_JS_INTERPOSERS /\ i < NUM_INTERPOSERS
                                  /\ SlotType(i) = DEV_TYPE_EV
                            THEN i - NUM_JS_INTERPOSERS ELSE -1
             text == IF gamepad_idx # -1 THEN snprintf(UniqText(gamepad_idx), len)
                     ELSE strncpy(<<83, 74, 73, 45, 69, 86, 45, 85, 78, 75, 78, 79, 87, 78>>, len - 1)
             buf == [k \in 1 .. len |->
                       IF k = len THEN 0
                       ELSE IF k <= Len(text) THEN text[k] ELSE UNTOUCHED]
         IN  IoctlResult(strlen(buf), "0", buf, corr)

\* EVIOCGPROP(len)
ev_get_prop(corr, arg, len) ==
    IF arg.null \/ len <= 0 THEN IoctlResult(-1, "EFAULT", <<>>, corr)
    ELSE IoctlResult(0, "0", FixedBits(<<INPUT_PROP_POINTING_STICK>>, len, ZeroBuf(len)), corr)

\* EVIOCGKEY(len), EVIOCGLED(len), EVIOCGSW(len)
ev_get_state(corr, arg, len) ==
    IF arg.null \/ len <= 0 THEN IoctlResult(-1, "EFAULT", <<>>, corr)
    ELSE IoctlResult(len, "0", ZeroBuf(len), corr)

\* the switch (request) of intercept_ev_ioctl
ev_ioctl_switch(corr, request, arg) ==
    LET ioctl_size == _IOC_SIZE(request)
    IN  CASE request = EVIOCGVERSION ->
                IF arg.null \/ ioctl_size < SIZEOF_INT THEN IoctlResult(-1, "EFAULT", <<>>, corr)
                ELSE IoctlResult(0, "0", <<65537>>, corr)
          [] request = EVIOCGID ->
                IF arg.null \/ ioctl_size < SIZEOF_INPUT_ID
                THEN IoctlResult(-1, "EFAULT", <<>>, corr)
                ELSE IoctlResult(0, "0", <<FAKE_UDEV_BUS_TYPE, FAKE_UDEV_VENDOR_ID,
                                           FAKE_UDEV_PRODUCT_ID, FAKE_UDEV_VERSION_ID>>, corr)
          [] request = EVIOCGRAB -> IoctlResult(0, "0", <<>>, corr)
          [] request = EVIOCSFF ->
                IF arg.null \/ ioctl_size < SIZEOF_FF_EFFECT
                THEN IoctlResult(-1, "EFAULT", <<>>, corr)
                ELSE LET id == IF arg.val = -1 THEN 1 ELSE arg.val
                     IN  IoctlResult(id, "0", <<id>>, corr)
          [] request = EVIOCRMFF -> IoctlResult(0, "0", <<>>, corr)
          [] request = EVIOCGEFFECTS ->
                IF arg.null \/ ioctl_size < SIZEOF_INT THEN IoctlResult(-1, "EFAULT", <<>>, corr)
                ELSE IoctlResult(0, "0", <<1>>, corr)
          [] OTHER -> IoctlResult(-1, "ENOTTY", <<>>, corr)

\* intercept_ev_ioctl on slot i
intercept_ev_ioctl_RejectsLegacy(i, cfg, corr, request, arg) ==
    exit_ioctl(IoctlResult(-1, "ENOTTY", <<>>, corr))

intercept_ev_ioctl(i, cfg, corr, request, arg) ==
    LET ioctl_nr == _IOC_NR(request)
        ioctl_size == _IOC_SIZE(request)
    IN  IF _IOC_TYPE(request) = TYPE_E
        THEN exit_ioctl(
               IF ioctl_nr >= NR_EVIOCGABS /\ ioctl_nr < NR_EVIOCGABS + ABS_CNT
               THEN ev_get_abs(corr, ioctl_nr - NR_EVIOCGABS, arg, ioctl_size)
               ELSE IF ioctl_nr = NR_EVIOCGNAME THEN get_name(corr, arg, ioctl_size)
               ELSE IF ioctl_nr = NR_EVIOCGPHYS THEN ev_get_phys(i, corr, arg, ioctl_size)
               ELSE IF ioctl_nr = NR_EVIOCGUNIQ THEN ev_get_uniq(i, corr, arg, ioctl_size)
               ELSE IF ioctl_nr = NR_EVIOCGPROP THEN ev_get_prop(corr, arg, ioctl_size)
               ELSE IF ioctl_nr \in {NR_EVIOCGKEY, NR_EVIOCGLED, NR_EVIOCGSW}
               THEN ev_get_state(corr, arg, ioctl_size)
               ELSE IF ioctl_nr >= NR_EVIOCGBIT /\ ioctl_nr < NR_EVIOCGBIT + EV_MAX
               THEN ev_get_bit(cfg, corr, ioctl_nr - NR_EVIOCGBIT, arg, ioctl_size)
               ELSE ev_ioctl_switch(corr, request, arg))
        ELSE IF _IOC_TYPE(request) = TYPE_J
        THEN intercept_js_ioctl(cfg, corr, request, arg)
        ELSE exit_ioctl(IoctlResult(-1, "ENOTTY", <<>>, corr))

CallIoctl(t, fd, request, arg) ==
    /\ th[t].pc = "idle"
    /\ SetTh(t, [Enter(th[t], "ioctl", "ioctl") EXCEPT !.fd = fd, !.request = request,
                                                       !.arg = arg])
    /\ UNCHANGED <<interposers, fdt, held, real>>

\* the slot loop of ioctl()
IoctlLookup(t) ==
    LET r == th[t]
        i == SlotOfFd(r.fd)
    IN  /\ r.pc = "ioctl"
        /\ ~OriginalMissing(r.op)
        /\ IF i = -1
           THEN SetTh(t, [Forward(r, "real_ioctl", <<r.fd, r.request, r.arg>>) EXCEPT
                                                             !.pc = "ioctl_forward"])
           ELSE SetTh(t, [r EXCEPT !.i = i, !.pc = "ioctl_emulate"])
        /\ UNCHANGED <<interposers, fdt, held, real>>

\* return real_ioctl(fd, request, arg_ptr)
IoctlForward(t) ==
    LET r == th[t] IN
    /\ r.pc = "ioctl_forward"
    /\ IF ~IsOpenFd(r.fd)
       THEN SetTh(t, Return(r, -1, "EBADF"))
       ELSE \/ SetTh(t, Return(r, 0, r.errno))
            \/ SetTh(t, Return(r, -1, "ENOTTY"))
    /\ UNCHANGED <<interposers, fdt, held, real>>

\* the emulator of the slot's type, run to its return
IoctlEmulate_KeepsCorr(t) ==
    LET r == th[t]
        slot == interposers[r.i]
        res == IF slot.type = DEV_TYPE_JS
               THEN intercept_js_ioctl(slot.js_config, slot.corr, r.request, r.arg)
               ELSE intercept_ev_ioctl(r.i, slot.js_config, slot.corr, r.request, r.arg)
    IN  /\ r.pc = "ioctl_emulate"
        /\ SetTh(t, Return([r EXCEPT !.out = res.out], res.ret, res.errno))
        /\ UNCHANGED <<interposers, fdt, held, real>>

IoctlEmulate(t) ==
    LET r == th[t]
        slot == interposers[r.i]
        res == IF slot.type = DEV_TYPE_JS
               THEN intercept_js_ioctl(slot.js_config, slot.corr, r.request, r.arg)
               ELSE intercept_ev_ioctl(r.i, slot.js_config, slot.corr, r.request, r.arg)
    IN  /\ r.pc = "ioctl_emulate"
        /\ SetSlot(r.i, [slot EXCEPT !.corr = res.corr])
        /\ SetTh(t, Return([r EXCEPT !.out = res.out], res.ret, res.errno))
        /\ UNCHANGED <<fdt, held, real>>

(***************************************************************************)
(* The enumeration layer (addons/fake-udev/fake-libudev-core.c): the        *)
(* attributes of the input parent of every virtual gamepad, as the strings  *)
(* it reports, and their reading as numbers.                                *)
(***************************************************************************)
\* "0x045e", "0x028e", "0x0114", "0003", "Microsoft X-Box 360 pad"
udev_id_vendor == <<48, 120, 48, 52, 53, 101>>
udev_id_product == <<48, 120, 48, 50, 56, 101>>
udev_id_version == <<48, 120, 48, 49, 49, 52>>
udev_id_bustype == <<48, 48, 48, 51>>
udev_name ==
    <<77, 105, 99, 114, 111, 115, 111, 102, 116, 32, 88, 45, 66, 111, 120, 32, 51, 54, 48, 32, 112, 97, 100>>

\* the value of a hexadecimal digit given by its character code
HexDigit(c) ==
    IF c >= 48 /\ c <= 57 THEN c - 48
    ELSE IF c >= 97 /\ c <= 102 THEN c - 87
    ELSE c - 55

\* the number a string of hexadecimal digits denotes, after an optional "0x"
RECURSIVE HexDigits(_, _)
HexDigits(str, acc) ==
    IF str = <<>> THEN acc ELSE HexDigits(Tail(str), 16 * acc + HexDigit(Head(str)))
ParseHex(str) ==
    IF Len(str) >= 2 /\ str[1] = 48 /\ str[2] = 120
    THEN HexDigits(SubSeq(str, 3, Len(str)), 0)
    ELSE HexDigits(str, 0)

(***************************************************************************)
(* The producer at the other end of a connection                           *)
(***************************************************************************)
\* writes the configuration record, up to one of the cuts
ProducerSendConfig(fd, cuts) ==
    /\ IsSocket(fd) /\ fdt[fd].peer = "open"
    /\ fdt[fd].sent < SIZEOF_JS_CONFIG
    /\ \E c \in cuts :
         /\ c > fdt[fd].sent
         /\ fdt' = [fdt EXCEPT ![fd].sent = c]
    /\ UNCHANGED <<interposers, th, held, real>>

\* after the architecture byte arrived, pushes one event record of the
\* layout of the device it serves
ProducerSendEvent(fd) ==
    /\ IsSocket(fd) /\ fdt[fd].peer = "open"
    /\ fdt[fd].tx # <<>>
    /\ fdt[fd].evq + EventSize(fdt[fd].slot) <= MaxQueuedEvents * EventSize(fdt[fd].slot)
    /\ fdt' = [fdt EXCEPT ![fd].evq = @ + EventSize(fdt[fd].slot)]
    /\ UNCHANGED <<interposers, th, held, real>>

\* a write of an event record reaches the stream in two pieces: the first
\* half of the record is there, the rest is not yet (or never, if the
\* producer closes)
ProducerSendPart(fd) ==
    /\ IsSocket(fd) /\ fdt[fd].peer = "open"
    /\ fdt[fd].tx # <<>>
    /\ fdt[fd].evq + EventSize(fdt[fd].slot) <= MaxQueuedEvents * EventSize(fdt[fd].slot)
    /\ fdt' = [fdt EXCEPT ![fd].evq = @ + EventSize(fdt[fd].slot) \div 2]
    /\ UNCHANGED <<interposers, th, held, real>>

\* closes its end
ProducerClose(fd) ==
    /\ IsSocket(fd) /\ fdt[fd].peer = "open"
    /\ fdt' = [fdt EXCEPT ![fd].peer = "closed"]
    /\ UNCHANGED <<interposers, th, held, real>>

Producer ==
    \E fd \in Fds :
        ProducerSendConfig(fd, ConfigCuts) \/ ProducerSendEvent(fd) \/ ProducerClose(fd)

(***************************************************************************)
(* Specifications                                                          *)
(***************************************************************************)
\* inputs of the calls
\* two monitored paths, one of each kind, and the name of a file that does not exist
PathsTried == {open_dev_name(0), open_dev_name(4), "/dev/input/js4"}
FlagsTried == {O_RDWR, O_RDWR + O_NONBLOCK}
FdsTried == Fds
CountsTried == {0, SIZEOF_JS_EVENT, SIZEOF_INPUT_EVENT}
EpollOpsTried == {EPOLL_CTL_ADD, EPOLL_CTL_DEL, EPOLL_CTL_MOD}
ConnectErrors == {"ENOENT", "ECONNREFUSED", "EACCES"}

\* a host thread enters an intercepted function
Call(t) ==
    \/ \E op \in {"open", "open64"}, p \in PathsTried, f \in FlagsTried : CallOpen(t, op, p, f)
    \/ \E fd \in FdsTried : CallClose(t, fd)
    \/ \E fd \in FdsTried, n \in CountsTried : CallRead(t, fd, n)
    \/ \E fd \in FdsTried, op \in EpollOpsTried : CallEpollCtl(t, op, fd)

\* the caller has the result and is ready for its next call
Leave(t) ==
    LET r == th[t] IN
    /\ r.pc = "done"
    /\ SetTh(t, [IdleThread EXCEPT !.calls = r.calls])
    /\ held' = IF r.op \in {"open", "open64"} /\ r.i # -1 /\ r.ret >= 0
               THEN [held EXCEPT ![r.i] = r.ret] ELSE held
    /\ UNCHANGED <<interposers, fdt, real>>

\* a host thread takes the next step of the handler it is in
Step(t) ==
    \/ OpenLookup(t) \/ OpenSetFlags(t) \/ CreateSocket(t) \/ Connect(t, ConfigIds, ConnectErrors)
    \/ ConfigBegin(t) \/ ConfigRead(t) \/ ConfigEnd(t) \/ WriteArchByte(t)
    \/ ConnectFail(t) \/ ConnectFailReset(t) \/ OpenFailed(t) \/ OpenFinish(t)
    \/ CloseLookup(t) \/ CloseResetFd(t) \/ CloseResetFlags(t) \/ CloseResetConfig(t)
    \/ ReadLookup(t) \/ ReadForward(t) \/ ReadRecv(t)
    \/ EpollCtl(t) \/ EpollCtlForward(t) \/ Leave(t)

\* one host thread: every call runs to its return before the next is made
Next == Call(1) \/ Step(1) \/ Producer

Spec == Init /\ [][Next]_vars

\* Several host threads inside the interposer at once, on one legacy slot
\* whose producer is listening.
ConcCall(t) ==
    /\ th[t].calls < MaxCalls
    /\ \/ CallOpen(t, "open", open_dev_name(0), O_RDWR)
       \/ \E fd \in FdsTried : CallClose(t, fd)
       \/ \E fd \in FdsTried : CallRead(t, fd, SIZEOF_JS_EVENT)

ConcStep(t) ==
    \/ OpenLookup(t) \/ OpenSetFlags(t) \/ CreateSocket(t) \/ Connect(t, {1}, {"EACCES"})
    \/ ConfigBegin(t) \/ ConfigRead(t) \/ ConfigEnd(t) \/ WriteArchByte(t)
    \/ ConnectFail(t) \/ ConnectFailReset(t) \/ OpenFailed(t) \/ OpenFinish(t)
    \/ CloseLookup(t) \/ CloseResetFd(t) \/ CloseResetFlags(t) \/ CloseResetConfig(t)
    \/ ReadLookup(t) \/ ReadForward(t) \/ ReadRecv(t)
    \/ Leave(t)

\* the producer writes the record in one piece and keeps the connection open
ConcProducer == \E fd \in Fds : ProducerSendConfig(fd, {SIZEOF_JS_CONFIG})

ConcNext == (\E t \in Threads : ConcCall(t) \/ ConcStep(t)) \/ ConcProducer

ConcSpec == Init /\ [][ConcNext]_vars

\* One host thread that is always scheduled: a handler that can take a step
\* takes it.  Nothing obliges the producer to send or to close.
LiveCall(t) ==
    \/ \E f \in FlagsTried : CallOpen(t, "open", open_dev_name(0), f)
    \/ CallClose(t, FIRST_FD)
    \/ CallRead(t, FIRST_FD, SIZEOF_JS_EVENT)
    \/ CallEpollCtl(t, EPOLL_CTL_ADD, FIRST_FD)

LiveNext == LiveCall(1) \/ Step(1) \/ Producer

LiveSpec == Init /\ [][LiveNext]_vars /\ WF_vars(Step(1))

\* One host thread reading events from a producer whose writes reach the
\* stream socket whole or in pieces.
StreamCall(t) ==
    \/ \E p \in {open_dev_name(0), open_dev_name(NUM_JS_INTERPOSERS)} :
          CallOpen(t, "open", p, O_RDWR)
    \/ \E fd \in FdsTried : CallRead(t, fd, SIZEOF_INPUT_EVENT)
    \/ \E fd \in FdsTried : CallClose(t, fd)

StreamStep(t) ==
    \/ OpenLookup(t) \/ OpenSetFlags(t) \/ CreateSocket(t) \/ Connect(t, {1}, {"EACCES"})
    \/ ConfigBegin(t) \/ ConfigRead(t) \/ ConfigEnd(t) \/ WriteArchByte(t)
    \/ ConnectFail(t) \/ ConnectFailReset(t) \/ OpenFailed(t) \/ OpenFinish(t)
    \/ CloseLookup(t) \/ CloseResetFd(t) \/ CloseResetFlags(t) \/ CloseResetConfig(t)
    \/ ReadLookup(t) \/ ReadForward(t) \/ ReadRecv(t)
    \/ Leave(t)

StreamProducer ==
    \E fd \in Fds :
        \/ ProducerSendConfig(fd, {SIZEOF_JS_CONFIG})
        \/ ProducerSendEvent(fd) \/ ProducerSendPart(fd) \/ ProducerClose(fd)

StreamNext == StreamCall(1) \/ StreamStep(1) \/ StreamProducer

StreamSpec == Init /\ [][StreamNext]_vars

\* The handshake alone: one host thread opens and closes the first legacy
\* device while a second one registers the descriptor with an epoll
\* instance; the producer writes the record in pieces that end at field
\* boundaries and may close its end at any time; a signal may interrupt a
\* blocked read of the record.  Each thread makes at most MaxCalls calls.
HandshakeCall ==
    \/ /\ th[1].calls < MaxCalls
       /\ \/ \E f \in FlagsTried : CallOpen(1, "open", open_dev_name(0), f)
          \/ CallClose(1, FIRST_FD)
    \/ /\ th[2].calls < MaxCalls
       /\ CallEpollCtl(2, EPOLL_CTL_ADD, FIRST_FD)

HandshakeStep ==
    \/ OpenLookup(1) \/ OpenSetFlags(1) \/ CreateSocket(1)
    \/ Connect(1, HandshakeConfigIds, {"EACCES"})
    \/ ConfigBegin(1) \/ ConfigRead(1) \/ ConfigReadInterrupted(1) \/ ConfigEnd(1)
    \/ WriteArchByte(1)
    \/ ConnectFail(1) \/ ConnectFailReset(1) \/ OpenFailed(1) \/ OpenFinish(1)
    \/ CloseLookup(1) \/ CloseResetFd(1) \/ CloseResetFlags(1) \/ CloseResetConfig(1)
    \/ Leave(1)
    \/ EpollCtl(2) \/ EpollCtlForward(2) \/ Leave(2)

HandshakeProducer ==
    \E fd \in Fds : ProducerSendConfig(fd, HandshakeCuts) \/ ProducerClose(fd)

HandshakeNext == HandshakeCall \/ HandshakeStep \/ HandshakeProducer

HandshakeSpec == Init /\ [][HandshakeNext]_vars

\* One host thread whose calls mostly concern other files than the
\* monitored devices: it opens a file that exists, a name that does not and
\* the first legacy device, and uses every descriptor number with every
\* intercepted function.
PassFlagsTried == {O_RDWR, O_RDWR + O_CREAT, O_RDWR + O_TMPFILE}
PassRequestsTried == {_IOC(_IOC_READ, TYPE_J, 17, 1), EVIOCGVERSION}

PassCall(t) ==
    \/ \E op \in {"open", "open64"}, p \in {"/tmp/f", "/dev/input/js4"}, f \in PassFlagsTried :
          CallOpenMode(t, op, p, f, IF NeedsMode(f) THEN 384 ELSE NoMode)
    \/ CallOpen(t, "open", open_dev_name(0), O_RDWR)
    \/ \E fd \in FdsTried : CallClose(t, fd)
    \/ \E fd \in FdsTried : CallRead(t, fd, SIZEOF_JS_EVENT)
    \/ \E fd \in FdsTried, op \in EpollOpsTried : CallEpollCtl(t, op, fd)
    \/ \E fd \in FdsTried, request \in PassRequestsTried : CallIoctl(t, fd, request, BufArg(0))

PassStep(t) ==
    \/ OpenLookup(t) \/ OpenSetFlags(t) \/ CreateSocket(t) \/ Connect(t, {1}, {"EACCES"})
    \/ ConfigBegin(t) \/ ConfigRead(t) \/ ConfigEnd(t) \/ WriteArchByte(t)
    \/ ConnectFail(t) \/ ConnectFailReset(t) \/ OpenFailed(t) \/ OpenFinish(t)
    \/ CloseLookup(t) \/ CloseResetFd(t) \/ CloseResetFlags(t) \/ CloseResetConfig(t)
    \/ ReadLookup(t) \/ ReadForward(t) \/ ReadRecv(t)
    \/ EpollCtl(t) \/ EpollCtlForward(t)
    \/ IoctlLookup(t) \/ IoctlForward(t) \/ IoctlEmulate(t)
    \/ Leave(t)

PassNext == PassCall(1) \/ PassStep(1) \/ ConcProducer

PassSpec == Init /\ [][PassNext]_vars

\* The load-time specification: dlsym left any of the original functions
\* unresolved; one thread calls every intercepted function on a monitored
\* path, on a file and on the first descriptor.
LoadInit ==
    /\ interposers = [i \in Slots |->
          [type |-> SlotType(i), sockfd |-> -1, open_flags |-> 0, corr |-> 0,
           js_config |-> ZeroConfig]]
    /\ fdt = [fd \in Fds |-> FreeFd]
    /\ th = [t \in Threads |-> IdleThread]
    /\ held = [i \in Slots |-> -1]
    /\ \E missing \in SUBSET (RealFunctions \ {"real_access"}) : real = RealFunctions \ missing

LoadCall(t) ==
    \/ \E op \in {"open", "open64"}, p \in {"/tmp/f", open_dev_name(0)} :
          CallOpen(t, op, p, O_RDWR)
    \/ CallClose(t, FIRST_FD)
    \/ CallRead(t, FIRST_FD, SIZEOF_JS_EVENT)
    \/ CallEpollCtl(t, EPOLL_CTL_ADD, FIRST_FD)
    \/ CallIoctl(t, FIRST_FD, EVIOCGVERSION, BufArg(0))

LoadNext == LoadCall(1) \/ EntryUnresolved(1) \/ NullCall(1) \/ PassStep(1) \/ ConcProducer

LoadSpec == LoadInit /\ [][LoadNext]_vars

\* One host thread that opens the first legacy device, with or without
\* O_NONBLOCK, and reads from its descriptor, registers it with an epoll
\* instance, issues ioctls on it and closes it, in any order, while the
\* producer sends the record and events and may close its end.
FrameRequestsTried ==
    {_IOC(_IOC_WRITE, TYPE_J, 33, SIZEOF_JS_CORR), _IOC(_IOC_READ, TYPE_J, 34, SIZEOF_JS_CORR),
     _IOC(_IOC_READ, TYPE_J, 18, 1), EVIOCGVERSION}

FrameCall(t) ==
    \/ \E f \in FlagsTried : CallOpen(t, "open", open_dev_name(0), f)
    \/ CallClose(t, FIRST_FD)
    \/ CallRead(t, FIRST_FD, SIZEOF_JS_EVENT)
    \/ \E op \in EpollOpsTried : CallEpollCtl(t, op, FIRST_FD)
    \/ \E request \in FrameRequestsTried : CallIoctl(t, FIRST_FD, request, BufArg(-5))

FrameNext == FrameCall(1) \/ PassStep(1) \/ Producer

FrameSpec == Init /\ [][FrameNext]_vars

\* The shared-descriptor specification: two users of the first legacy device
\* in one process that call one after the other.  Thread 1 opens, uses and
\* closes the device again and again; thread 2 opens it once and keeps the
\* descriptor its open returned.
SharedOpenStep(t) ==
    \/ OpenLookup(t) \/ OpenSetFlags(t) \/ CreateSocket(t) \/ Connect(t, {1}, {"EACCES"})
    \/ ConfigBegin(t) \/ ConfigRead(t) \/ ConfigEnd(t) \/ WriteArchByte(t)
    \/ ConnectFail(t) \/ ConnectFailReset(t) \/ OpenFailed(t) \/ OpenFinish(t)

SharedCall ==
    \/ th[2].pc \in {"idle", "done"} /\ FrameCall(1)
    \/ th[1].pc = "idle" /\ CallOpen(2, "open", open_dev_name(0), O_RDWR)

SharedNext == SharedCall \/ PassStep(1) \/ SharedOpenStep(2) \/ Producer

SharedSpec == Init /\ [][SharedNext]_vars

\* One host thread that opens one device at a time and issues ioctls on its
\* descriptor.
RequestsTried ==
    {_IOC(_IOC_READ, TYPE_J, nr, 4) : nr \in {1, 17, 18, 85}}
    \cup {_IOC(_IOC_READ, TYPE_J, 19, len) : len \in {0, 1, 5, 24, 40}}
    \cup {_IOC(_IOC_WRITE, TYPE_J, 33, size) : size \in {SIZEOF_INT, SIZEOF_JS_CORR}}
    \cup {_IOC(_IOC_READ, TYPE_J, 34, size) : size \in {SIZEOF_INT, SIZEOF_JS_CORR}}
    \cup {_IOC(_IOC_WRITE, TYPE_J, nr, size) : nr \in {49, 51}, size \in {0, 64}}
    \cup {_IOC(_IOC_READ, TYPE_J, 50, size) : size \in {0, 2, 8, 64, 65}}
    \cup {_IOC(_IOC_READ, TYPE_J, 52, size) : size \in {0, 2, 4, 21, 22, 1024, 1026}}
    \cup {_IOC(_IOC_READ, TYPE_E, NR_EVIOCGABS + c, size) :
             c \in {ABS_X, ABS_Z, ABS_HAT0X, ABS_MAX}, size \in {8, SIZEOF_INPUT_ABSINFO}}
    \cup {_IOC(_IOC_READ, TYPE_E, nr, len) :
             nr \in {NR_EVIOCGNAME, NR_EVIOCGPHYS, NR_EVIOCGUNIQ}, len \in {0, 1, 5, 64}}
    \cup {_IOC(_IOC_READ, TYPE_E, nr, len) :
             nr \in {NR_EVIOCGPROP, NR_EVIOCGKEY, NR_EVIOCGLED, NR_EVIOCGSW}, len \in {0, 1, 8}}
    \cup {_IOC(_IOC_READ, TYPE_E, NR_EVIOCGBIT + ty, len) :
             ty \in {0, EV_KEY, 2, EV_ABS, EV_FF, EV_MAX}, len \in {0, 1, 39, 96}}
    \cup {EVIOCGVERSION, EVIOCGID, EVIOCGRAB, EVIOCSFF, EVIOCRMFF, EVIOCGEFFECTS}
    \cup {_IOC(_IOC_READ, TYPE_E, 160, 4), _IOC(_IOC_READ, 88, 1, 4)}

ArgsTried == {NullArg, BufArg(-1), BufArg(-5)}

IoctlCall(t) ==
    \/ /\ \A i \in Slots : held[i] = -1
       /\ \E p \in {open_dev_name(0), open_dev_name(NUM_JS_INTERPOSERS)} :
             CallOpen(t, "open", p, O_RDWR)
    \/ \E request \in RequestsTried, arg \in ArgsTried :
          CallIoctl(t, FIRST_FD, request, arg)
    \/ CallClose(t, FIRST_FD)

IoctlStep(t) ==
    \/ OpenLookup(t) \/ OpenSetFlags(t) \/ CreateSocket(t)
    \/ Connect(t, IoctlConfigIds, {"EACCES"})
    \/ ConfigBegin(t) \/ ConfigRead(t) \/ ConfigEnd(t) \/ WriteArchByte(t)
    \/ ConnectFail(t) \/ ConnectFailReset(t) \/ OpenFailed(t) \/ OpenFinish(t)
    \/ CloseLookup(t) \/ CloseResetFd(t) \/ CloseResetFlags(t) \/ CloseResetConfig(t)
    \/ IoctlLookup(t) \/ IoctlForward(t) \/ IoctlEmulate(t)
    \/ Leave(t)

IoctlNext == IoctlCall(1) \/ IoctlStep(1) \/ ConcProducer

IoctlSpec == Init /\ [][IoctlNext]_vars

(***************************************************************************)
(* Properties                                                              *)
(***************************************************************************)
IsOpenOp(r) == r.op \in {"open", "open64"}
AtCallBoundary == \A t \in Threads : th[t].pc \in {"idle", "done"}
SocketsOf(i) == {fd \in Fds : IsSocket(fd) /\ fdt[fd].slot = i}
HandshakeDone(fd) == fdt[fd].tx # <<>>

\* C1: while the application holds the descriptor a successful open/open64
\* of a slot's path returned (no close() of it since), a further open/open64
\* of that path returns that same descriptor in one step that leaves the
\* kernel's descriptors (no socket, connect, configuration read or
\* architecture byte) and the slot table as they were.
C1_ReuseOpenReturnsSameDescriptor ==
    [][\A t \in Threads :
          LET i == SlotOfPath(th[t].path) IN
          (th[t].pc = "open" /\ th'[t] # th[t] /\ i # -1 /\ held[i] # -1)
             => /\ th'[t].pc = "done"
                /\ th'[t].ret = held[i]
                /\ fdt' = fdt
                /\ interposers' = interposers]_vars

\* C1 witness: an open64 of the evdev path has returned the descriptor the
\* application already held, whose handshake was complete.
C1_Witness ==
    \E t \in Threads :
        /\ th[t].pc = "done" /\ th[t].op = "open64" /\ th[t].reused
        /\ th[t].i = NUM_JS_INTERPOSERS
        /\ th[t].ret = held[th[t].i] /\ IsSocket(th[t].ret)
        /\ fdt[th[t].ret].tx = <<8>>

\* C2 (as claimed): when close() of an interposed descriptor has returned,
\* whatever it returned, the slot's sockfd is -1 and its configuration zero.
C2_CloseAlwaysResetsSlot ==
    \A t \in Threads :
        (th[t].pc = "done" /\ th[t].op = "close" /\ th[t].i # -1)
           => /\ interposers[th[t].i].sockfd = -1
              /\ interposers[th[t].i].js_config = ZeroConfig

\* C3: when open/open64 of a monitored path has returned a failure, it
\* returned -1 with errno EIO, the descriptor its socket() returned (if any)
\* is closed, and the slot has sockfd -1 and open_flags 0; and an open of a
\* monitored path whose slot has sockfd -1 goes on to a connection attempt.
C3_FailedOpenLeavesSlotAbsent ==
    /\ [](\A t \in Threads :
            (th[t].pc = "done" /\ IsOpenOp(th[t]) /\ th[t].i # -1 /\ th[t].ret < 0)
               => /\ th[t].ret = -1 /\ th[t].errno = "EIO"
                  /\ (th[t].made # -1 => ~IsOpenFd(th[t].made))
                  /\ interposers[th[t].i].sockfd = -1
                  /\ interposers[th[t].i].open_flags = 0)
    /\ [][\A t \in Threads :
            LET i == SlotOfPath(th[t].path) IN
            (th[t].pc = "open" /\ th'[t] # th[t] /\ i # -1 /\ interposers[i].sockfd = -1)
               => th'[t].pc = "open_flags"]_vars

\* C3 witness: an open failed at the architecture byte, after the socket was
\* created and connected and the whole record was read.
C3_Witness ==
    \E t \in Threads : \E c \in ConfigIds :
        /\ th[t].pc = "done" /\ IsOpenOp(th[t]) /\ th[t].i # -1 /\ th[t].ret = -1
        /\ th[t].made # -1
        /\ interposers[th[t].i].js_config = WireConfigs[c]

\* C4: a socket carries at most the one architecture byte 8, written only
\* when the whole configuration record had been received on it; and an open
\* that created the session returns its socket's descriptor only when that
\* byte has been written and the slot holds the record.
C4_HandshakeOrder ==
    /\ \A fd \in Fds :
          (IsSocket(fd) /\ fdt[fd].tx # <<>>)
             => fdt[fd].tx = <<8>> /\ fdt[fd].rcvd = SIZEOF_JS_CONFIG
    /\ \A t \in Threads :
          (th[t].pc = "done" /\ IsOpenOp(th[t]) /\ th[t].i # -1 /\ ~th[t].reused
              /\ th[t].ret >= 0)
             => /\ th[t].ret = th[t].made /\ IsSocket(th[t].ret)
                /\ fdt[th[t].ret].tx = <<8>>
                /\ interposers[th[t].i].js_config = WireConfigs[fdt[th[t].ret].cfg]

\* C4 witness: an open that created the session has returned its descriptor.
C4_Witness ==
    \E t \in Threads :
        /\ th[t].pc = "done" /\ IsOpenOp(th[t]) /\ ~th[t].reused /\ th[t].ret >= 0
        /\ fdt[th[t].ret].rcvd = SIZEOF_JS_CONFIG

\* C5 (as claimed): no close(), read(), epoll_ctl() or reuse open() is matched
\* to a slot whose socket has not completed its handshake, and no recv of an
\* event read reaches such a socket.
C5_NoMatchBeforeHandshake ==
    [][\A t \in Threads :
          /\ (/\ th[t].pc \in {"open", "close", "read", "epoll_ctl"}
              /\ th'[t] # th[t] /\ th'[t].i # -1
              /\ (th[t].pc = "open" => th'[t].reused))
                => LET fd == interposers[th'[t].i].sockfd
                   IN  IsSocket(fd) => HandshakeDone(fd)
          /\ (th[t].pc = "read_recv" /\ th'[t] # th[t])
                => LET fd == interposers[th[t].i].sockfd
                   IN  IsSocket(fd) => HandshakeDone(fd)]_vars

\* C6 (as claimed): every open socket is the sockfd of the slot it was
\* created for, and the interposer never passes a descriptor that is already
\* closed to real_close.
C6_NoOrphanNoDoubleClose ==
    /\ \A fd \in Fds : IsSocket(fd) => interposers[fdt[fd].slot].sockfd = fd
    /\ \A t \in Threads :
          ~(/\ th[t].i # -1 /\ th[t].errno = "EBADF"
            /\ \/ th[t].pc = "connect_fail_reset"
               \/ th[t].pc = "done" /\ th[t].op = "close")

\* C7 (as claimed): whenever a slot's sockfd is a socket created for the slot
\* whose handshake is complete, the slot's configuration is the record that
\* connection delivered and its open_flags are those of the open that
\* created it.
C7_SessionStateIsItsOpens ==
    \A i \in Slots :
        LET fd == interposers[i].sockfd IN
        (IsSocket(fd) /\ fdt[fd].slot = i /\ HandshakeDone(fd))
           => /\ interposers[i].js_config = WireConfigs[fdt[fd].cfg]
              /\ interposers[i].open_flags = fdt[fd].oflags

\* C8 (as claimed): between the calls of a single thread each slot has at
\* most one open socket created for it, it has one iff its sockfd is not -1,
\* and then sockfd is that socket's descriptor; and an open of the slot's
\* path goes on to a connection attempt iff sockfd is -1.
C8_OneSocketPerSlot ==
    /\ [](AtCallBoundary =>
            \A i \in Slots :
                /\ Cardinality(SocketsOf(i)) <= 1
                /\ (SocketsOf(i) # {} <=> interposers[i].sockfd # -1)
                /\ \A fd \in SocketsOf(i) : interposers[i].sockfd = fd)
    /\ [][\A t \in Threads :
            LET i == SlotOfPath(th[t].path) IN
            (th[t].pc = "open" /\ th'[t] # th[t] /\ i # -1)
               => (th'[t].pc = "open_flags" <=> interposers[i].sockfd = -1)]_vars

\* C9 (as claimed): a read() that has reached recv on an interposed
\* descriptor returns to its caller.
C9_ReadReturns ==
    \A t \in Threads : (th[t].pc = "read_recv") ~> (th[t].pc = "done")

\* C10 (as claimed): an open()/open64() of a monitored path returns to its
\* caller.
C10_OpenReturns ==
    \A t \in Threads : (th[t].pc = "open") ~> (th[t].pc = "done")

\* C11: in the connect loop a failed connect is followed by another attempt
\* only when errno is ENOENT or ECONNREFUSED and less than 250 ms have been
\* slept, after one sleep of 10 ms; such a failure with 250 ms slept, and
\* any other error at once, ends the loop as a connect failure; no open
\* makes more than 26 attempts.
C11_ConnectRetryBounded ==
    /\ [](\A t \in Threads :
            th[t].pc = "connect"
               => /\ th[t].attempt + 1 <= 26
                  /\ th[t].total_slept_us = th[t].attempt * 10000)
    /\ [][\A t \in Threads :
            (th[t].pc = "connect" /\ th'[t] # th[t])
               => \/ th'[t].pc = "cfg_begin"
                  \/ /\ th'[t].pc = "connect"
                     /\ th'[t].errno \in {"ENOENT", "ECONNREFUSED"}
                     /\ th[t].total_slept_us < 250000
                     /\ th'[t].total_slept_us = th[t].total_slept_us + 10000
                     /\ th'[t].attempt = th[t].attempt + 1
                  \/ /\ th'[t].pc = "connect_fail"
                     /\ th'[t].errno \in {"ENOENT", "ECONNREFUSED"}
                           => th[t].total_slept_us = 250000]_vars

\* C11 witness: 25 attempts have failed with 250 ms slept, the 26th is next.
C11_Witness ==
    \E t \in Threads :
        /\ th[t].pc = "connect" /\ th[t].attempt = 25
        /\ th[t].total_slept_us = 250000 /\ th[t].errno = "ECONNREFUSED"

\* C12 (as claimed): a read() of an interposed descriptor with a count below
\* the record size of the slot's kind, 0 included, returns -1 with EINVAL.
C12_SmallReadIsEinval ==
    \A t \in Threads :
        (th[t].pc = "done" /\ th[t].op = "read" /\ th[t].i # -1
            /\ th[t].count < EventSize(th[t].i))
           => th[t].ret = -1 /\ th[t].errno = "EINVAL"

\* C12 (amended): a read() of an interposed descriptor with a count below
\* the record size of the slot's kind returns in one step that leaves the
\* sockets as they were: 0 when the count is 0, else -1 with EINVAL.
C12_SmallReadRejected ==
    [][\A t \in Threads :
          LET i == SlotOfFd(th[t].fd) IN
          (th[t].pc = "read" /\ th'[t] # th[t] /\ i # -1 /\ th[t].count < EventSize(i))
             => /\ th'[t].pc = "done"
                /\ fdt' = fdt
                /\ th[t].count = 0 => th'[t].ret = 0
                /\ th[t].count > 0 => th'[t].ret = -1 /\ th'[t].errno = "EINVAL"]_vars

\* C12 witness: a read of 8 bytes on an evdev session with an event waiting
\* was rejected.
C12_Witness ==
    \E t \in Threads :
        /\ th[t].pc = "done" /\ th[t].op = "read" /\ th[t].i = NUM_JS_INTERPOSERS
        /\ th[t].count = 8 /\ th[t].ret = -1 /\ th[t].errno = "EINVAL"
        /\ IsSocket(th[t].fd) /\ fdt[th[t].fd].evq = 24

\* C13 (as claimed): a read() of an interposed descriptor that returns a
\* non-negative value returns one whole record of the slot's kind, or 0; and
\* it returns 0 for a request of at least one record only when the peer has
\* closed.
C13_ReadWholeRecordOrFail ==
    \A t \in Threads :
        (th[t].pc = "done" /\ th[t].op = "read" /\ th[t].i # -1 /\ th[t].ret >= 0)
           => /\ th[t].ret \in {0, EventSize(th[t].i)}
              /\ (th[t].ret = 0 /\ th[t].count > 0 /\ IsSocket(th[t].fd))
                    => fdt[th[t].fd].peer = "closed"

\* C14 (as claimed): when an open/open64 with O_NONBLOCK of a monitored path
\* has returned a descriptor, created or reused, that socket is in
\* non-blocking mode; a socket in non-blocking mode stays in it for as long
\* as it is open; and setting the mode where it is set changes nothing.
C14_NonblockingOpenMakesSocketNonblocking ==
    /\ [](\A t \in Threads :
            (th[t].pc = "done" /\ IsOpenOp(th[t]) /\ th[t].i # -1
                /\ HasFlag(th[t].flags, O_NONBLOCK) /\ IsSocket(th[t].ret))
               => fdt[th[t].ret].nonblock)
    /\ [][\A fd \in Fds :
            (IsSocket(fd) /\ fdt[fd].nonblock /\ fdt'[fd].kind = "sock")
               => fdt'[fd].nonblock]_vars
    /\ [](\A fd \in Fds :
            (IsSocket(fd) /\ fdt[fd].nonblock) => make_socket_nonblocking(fdt, fd) = fdt)

\* C15: epoll_ctl passes through exactly one call of the original epoll_ctl,
\* whose result it returns.  Before that call, ADD or MOD of a descriptor
\* that is some slot's sockfd has put that socket in non-blocking mode, while
\* DEL, or a descriptor that matches no slot, has changed no descriptor; the
\* forwarding step itself changes no descriptor and no slot.
C15_EpollCtlForcesNonblockingThenForwards ==
    [][\A t \in Threads :
          /\ (th[t].pc = "epoll_ctl" /\ th'[t] # th[t])
                => /\ th'[t].pc = "epoll_forward" /\ th'[t].fwd = "none"
                   /\ interposers' = interposers
                   /\ IF th[t].epop \in {1, 3} /\ SlotOfFd(th[t].fd) # -1
                      THEN IsSocket(th[t].fd) => fdt'[th[t].fd].nonblock
                      ELSE fdt' = fdt
                   /\ \A fd \in Fds \ {th[t].fd} : fdt'[fd] = fdt[fd]
          /\ (th[t].pc = "epoll_forward" /\ th'[t] # th[t])
                => /\ th'[t].pc = "done" /\ th'[t].fwd = "real_epoll_ctl"
                   /\ fdt' = fdt /\ interposers' = interposers
                   /\ th'[t].fd = th[t].fd /\ th'[t].epop = th[t].epop
          /\ (th[t].op = "epoll_ctl" /\ th'[t].pc = "done" /\ th[t].pc # "done")
                => th[t].pc = "epoll_forward"]_vars

\* C15 witness: epoll_ctl ADD of the descriptor of a session opened without
\* O_NONBLOCK has returned; the socket is in non-blocking mode.
C15_Witness ==
    \E t \in Threads :
        /\ th[t].pc = "done" /\ th[t].op = "epoll_ctl" /\ th[t].epop = 1
        /\ th[t].i # -1 /\ th[t].fwd = "real_epoll_ctl"
        /\ IsSocket(th[t].fd) /\ fdt[th[t].fd].nonblock
        /\ ~HasFlag(fdt[th[t].fd].oflags, O_NONBLOCK)


\* what an emulator returned to the caller of ioctl on a descriptor of a slot
Emulated(t) == th[t].pc = "done" /\ th[t].op = "ioctl" /\ th[t].i # -1

\* C16: every return of the joystick and of the evdev ioctl emulator has a
\* non-zero errno with a negative return value and errno 0 with a
\* non-negative one; a negative return value for which the handler set no
\* error code (the force-feedback upload that echoes a negative effect id)
\* comes back with ENOTTY.
C16_IoctlReturnNormalisesErrno ==
    \A t \in Threads :
        Emulated(t) =>
            /\ th[t].ret < 0 => th[t].errno # "0"
            /\ th[t].ret >= 0 => th[t].errno = "0"
            /\ (/\ interposers[th[t].i].type = DEV_TYPE_EV
                /\ th[t].request = EVIOCSFF
                /\ ~th[t].arg.null /\ th[t].arg.val < -1)
               => th[t].ret = th[t].arg.val /\ th[t].errno = "ENOTTY"

\* the evdev emulator returned the negative effect id -5 with ENOTTY
C16_Witness ==
    \E t \in Threads :
        /\ Emulated(t) /\ interposers[th[t].i].type = DEV_TYPE_EV
        /\ th[t].request = EVIOCSFF /\ th[t].ret = -5 /\ th[t].errno = "ENOTTY"


\* entry k (from 1) of a map as configured: what the producer sent, zero after it
MapEntry(map, k) == IF k <= Len(map) THEN map[k] ELSE 0

\* the emulator returned from a type 'j' request with number nr and a
\* caller's buffer
LegacyReturned(t, nr) ==
    /\ Emulated(t) /\ ~th[t].arg.null
    /\ _IOC_TYPE(th[t].request) = TYPE_J /\ _IOC_NR(th[t].request) = nr

\* C17: get-button-map (2 bytes per entry, capacity 512) and get-axis-map
\* (1 byte per entry, capacity 64) with embedded size S, on a descriptor of
\* either kind: if S is smaller than count x entry size or the count exceeds
\* the capacity, the call returns -1 with EINVAL and writes nothing;
\* otherwise it returns 0 and the first count entries of the buffer are the
\* configured map.
C17_GetMapChecksSizeAndCount ==
    \A t \in Threads :
        LET cfg == interposers[th[t].i].js_config
            S == _IOC_SIZE(th[t].request)
        IN  /\ LegacyReturned(t, 52) =>
                 IF S < cfg.num_btns * 2 \/ cfg.num_btns > 512
                 THEN th[t].ret = -1 /\ th[t].errno = "EINVAL" /\ th[t].out = <<>>
                 ELSE /\ th[t].ret = 0 /\ Len(th[t].out) = cfg.num_btns
                      /\ \A k \in 1 .. cfg.num_btns : th[t].out[k] = MapEntry(cfg.btn_map, k)
            /\ LegacyReturned(t, 50) =>
                 IF S < cfg.num_axes \/ cfg.num_axes > 64
                 THEN th[t].ret = -1 /\ th[t].errno = "EINVAL" /\ th[t].out = <<>>
                 ELSE /\ th[t].ret = 0 /\ Len(th[t].out) = cfg.num_axes
                      /\ \A k \in 1 .. cfg.num_axes : th[t].out[k] = MapEntry(cfg.axes_map, k)

\* eleven buttons read back through a buffer of exactly 22 bytes
C17_Witness ==
    \E t \in Threads :
        /\ LegacyReturned(t, 52) /\ _IOC_SIZE(th[t].request) = 22
        /\ interposers[th[t].i].js_config.num_btns = 11
        /\ th[t].ret = 0 /\ th[t].out = interposers[th[t].i].js_config.btn_map

\* 21 bytes are too small for them
C17_WitnessTooSmall ==
    \E t \in Threads :
        /\ LegacyReturned(t, 52) /\ _IOC_SIZE(th[t].request) = 21
        /\ interposers[th[t].i].js_config.num_btns = 11
        /\ th[t].ret = -1 /\ th[t].errno = "EINVAL"

\* a count beyond the capacity is refused whatever the size
C17_WitnessOverCapacity ==
    \E t \in Threads :
        /\ LegacyReturned(t, 50) /\ _IOC_SIZE(th[t].request) = 65
        /\ interposers[th[t].i].js_config.num_axes = 65
        /\ interposers[th[t].i].type = DEV_TYPE_EV
        /\ th[t].ret = -1 /\ th[t].errno = "EINVAL"


\* C18: set-axis-map and set-button-map on a descriptor of a slot of either
\* kind return -1 with EPERM whatever the argument and the embedded size,
\* and the step leaves the configuration of every slot as it was.
C18_SetMapIsRefused ==
    [][\A t \in Threads :
          (/\ th[t].pc = "ioctl_emulate" /\ th'[t].pc = "done"
           /\ _IOC_TYPE(th[t].request) = TYPE_J /\ _IOC_NR(th[t].request) \in {49, 51})
          => /\ th'[t].ret = -1 /\ th'[t].errno = "EPERM" /\ th'[t].out = <<>>
             /\ \A i \in Slots : interposers'[i].js_config = interposers[i].js_config]_vars

\* set-button-map with a buffer was refused on an evdev session that holds
\* a configuration
C18_Witness ==
    \E t \in Threads :
        /\ LegacyReturned(t, 51) /\ interposers[th[t].i].type = DEV_TYPE_EV
        /\ interposers[th[t].i].js_config.num_btns = 11
        /\ th[t].ret = -1 /\ th[t].errno = "EPERM"


\* the emulator returned from a get-identifier-string request (JSIOCGNAME on
\* either kind of slot, EVIOCGNAME on an evdev slot) with a caller's buffer
NameReturned(t) ==
    /\ Emulated(t) /\ ~th[t].arg.null
    /\ \/ _IOC_TYPE(th[t].request) = TYPE_J /\ _IOC_NR(th[t].request) = 19
       \/ /\ interposers[th[t].i].type = DEV_TYPE_EV
          /\ _IOC_TYPE(th[t].request) = TYPE_E /\ _IOC_NR(th[t].request) = NR_EVIOCGNAME

\* C19: get-identifier-string with embedded size L >= 1 returns min(L-1, n),
\* n the length of the reported name; the buffer holds the first min(L-1, n)
\* characters of the name and then a terminator, and nothing is written
\* beyond L bytes.
C19_GetNameTruncatesAndTerminates ==
    \A t \in Threads :
        LET L == _IOC_SIZE(th[t].request)
            n == Len(FAKE_UDEV_DEVICE_NAME)
            m == IF L - 1 < n THEN L - 1 ELSE n
        IN  (NameReturned(t) /\ L >= 1) =>
               /\ th[t].ret = m /\ th[t].errno = "0"
               /\ Len(th[t].out) <= L
               /\ \A k \in 1 .. m : th[t].out[k] = FAKE_UDEV_DEVICE_NAME[k]
               /\ th[t].out[m + 1] = 0

\* L = 5: four characters, "Micr", the terminator, and 4 returned
C19_Witness ==
    \E t \in Threads :
        /\ NameReturned(t) /\ _IOC_SIZE(th[t].request) = 5
        /\ th[t].ret = 4 /\ th[t].out = <<77, 105, 99, 114, 0>>

\* a buffer longer than the name holds the whole name
C19_WitnessWhole ==
    \E t \in Threads :
        /\ NameReturned(t) /\ _IOC_SIZE(th[t].request) = 64
        /\ th[t].ret = 23 /\ SubSeq(th[t].out, 1, 23) = FAKE_UDEV_DEVICE_NAME


\* the evdev emulator returned from the capability-bitmap request of the key
\* event type with a caller's buffer
KeyBitmapReturned(t) ==
    /\ Emulated(t) /\ ~th[t].arg.null
    /\ interposers[th[t].i].type = DEV_TYPE_EV
    /\ _IOC_TYPE(th[t].request) = TYPE_E
    /\ _IOC_NR(th[t].request) = NR_EVIOCGBIT + EV_KEY

\* the key codes that the button map of a configuration gives to the indices
\* below its button count
MappedKeyCodes(cfg) ==
    {MapEntry(cfg.btn_map, i + 1) :
        i \in {j \in 0 .. (cfg.num_btns - 1) : j < INTERPOSER_MAX_BTNS}}

\* C20: the capability bitmap of the key event type with embedded length
\* L >= 1 returns L, writes L bytes, and in them bit c is set exactly when c
\* is a key code mapped by some button index below the button count and
\* c/8 < L.
C20_KeyBitmapIsExactlyTheMappedCodes ==
    \A t \in Threads :
        LET L == _IOC_SIZE(th[t].request)
            codes == MappedKeyCodes(interposers[th[t].i].js_config)
        IN  (KeyBitmapReturned(t) /\ L >= 1) =>
               /\ th[t].ret = L /\ Len(th[t].out) = L
               /\ \A c \in 0 .. (8 * L - 1) : TestBit(th[t].out, c) <=> c \in codes


\* a record as it is to be decoded: the name field that holds no terminator
\* loses its last byte to one
RecordAsDecoded(rec) ==
    IF Len(rec.name) = 255 /\ \A k \in 1 .. 255 : rec.name[k] # 0
    THEN [rec EXCEPT !.name = SubSeq(rec.name, 1, 254)]
    ELSE rec

\* an open of a monitored path returned a descriptor
OpenSucceeded(t) ==
    th[t].pc = "done" /\ IsOpenOp(th[t]) /\ th[t].i # -1 /\ th[t].ret >= 0

\* C21: whatever the pieces in which the record reaches the socket, the
\* configuration held by the slot when an open returns its descriptor is the
\* record the producer wrote on that connection, field for field, but for
\* the last byte of a name without terminator.
C21_DecodedConfigEqualsRecord ==
    \A t \in Threads :
        OpenSucceeded(t) =>
            interposers[th[t].i].js_config = RecordAsDecoded(WireConfigs[fdt[th[t].ret].cfg])

\* the record with the 255-byte name was decoded, 254 bytes of the name kept
C21_Witness ==
    \E t \in Threads :
        /\ OpenSucceeded(t) /\ ~th[t].reused
        /\ Len(WireConfigs[fdt[th[t].ret].cfg].name) = 255
        /\ Len(interposers[th[t].i].js_config.name) = 254
        /\ interposers[th[t].i].js_config.btn_map = <<310>>

\* the eleven-button record was decoded
C21_WitnessMaps ==
    \E t \in Threads :
        /\ OpenSucceeded(t) /\ ~th[t].reused
        /\ interposers[th[t].i].js_config.num_btns = 11
        /\ Len(interposers[th[t].i].js_config.axes_map) = 8


\* the arguments the caller gave to the intercepted function
CallerArgs(r) ==
    CASE IsOpenOp(r) -> <<r.path, r.flags, r.mode>>
      [] r.op = "close" -> <<r.fd>>
      [] r.op = "read" -> <<r.fd, r.count>>
      [] r.op = "epoll_ctl" -> <<r.epop, r.fd>>
      [] r.op = "ioctl" -> <<r.fd, r.request, r.arg>>

\* the original function of the intercepted one
OriginalOf(r) ==
    CASE r.op = "open" -> "real_open"
      [] r.op = "open64" -> "real_open64"
      [] r.op = "close" -> "real_close"
      [] r.op = "read" -> "real_read"
      [] r.op = "epoll_ctl" -> "real_epoll_ctl"
      [] r.op = "ioctl" -> "real_ioctl"

\* C22: a call that matched no slot (an open of a path that is no slot's, a
\* close/read/ioctl/epoll_ctl of a descriptor that is no slot's socket) has,
\* when it returns, called the original function once and with the caller's
\* arguments, and no step of such a call changes any slot.
C22_UnmatchedCallsPassThrough ==
    [][/\ \A t \in Threads :
            (th'[t].pc = "done" /\ th'[t].i = -1) =>
               /\ th'[t].fwd = OriginalOf(th'[t]) /\ th'[t].nfwd = 1
               /\ th'[t].fwdargs = CallerArgs(th'[t])
       /\ (\A t \in Threads : th'[t].i = -1) => interposers' = interposers]_vars


\* the evdev emulator returned from the device-identity request with a
\* caller's buffer
IdReturned(t) ==
    /\ Emulated(t) /\ ~th[t].arg.null
    /\ interposers[th[t].i].type = DEV_TYPE_EV /\ th[t].request = EVIOCGID

\* C23: on every slot and with every received configuration, the name the
\* name ioctls report and the bus type, vendor, product and version the
\* device-identity ioctl reports are those of the enumeration layer:
\* "Microsoft X-Box 360 pad", 0x0003, 0x045e, 0x028e, 0x0114.
C23_IdentityMatchesEnumeration ==
    \A t \in Threads :
        /\ IdReturned(t) =>
              /\ th[t].ret = 0
              /\ th[t].out = <<ParseHex(udev_id_bustype), ParseHex(udev_id_vendor),
                               ParseHex(udev_id_product), ParseHex(udev_id_version)>>
              /\ th[t].out = <<3, 1118, 654, 276>>
        /\ (NameReturned(t) /\ _IOC_SIZE(th[t].request) > Len(udev_name)) =>
              /\ th[t].ret = Len(udev_name)
              /\ SubSeq(th[t].out, 1, th[t].ret) = udev_name

\* the identity was reported on a session whose configuration names another
\* vendor and product
C23_Witness ==
    \E t \in Threads :
        /\ IdReturned(t) /\ interposers[th[t].i].js_config.vendor = 1356
        /\ th[t].out[2] = 1118 /\ th[t].out[3] = 654

\* the name was reported on a legacy session whose configuration has another
C23_WitnessName ==
    \E t \in Threads :
        /\ NameReturned(t) /\ interposers[th[t].i].type = DEV_TYPE_JS
        /\ interposers[th[t].i].js_config.name = <<80, 97, 100>>
        /\ th[t].ret = 23

\* a configuration with its counts brought down to the capacity of the maps
CappedConfig(cfg) ==
    [cfg EXCEPT !.num_btns = Min(@, INTERPOSER_MAX_BTNS),
                !.num_axes = Min(@, INTERPOSER_MAX_AXES)]

\* an emulator returned from one of the requests that consult the maps, with
\* a caller's buffer: get-axis-map and get-button-map on either kind of
\* descriptor, the capability bitmap of the key and of the abs event type
ConsultsMaps(t) ==
    /\ Emulated(t) /\ ~th[t].arg.null
    /\ \/ _IOC_TYPE(th[t].request) = TYPE_J /\ _IOC_NR(th[t].request) \in {50, 52}
       \/ /\ interposers[th[t].i].type = DEV_TYPE_EV
          /\ _IOC_TYPE(th[t].request) = TYPE_E
          /\ _IOC_NR(th[t].request) \in {NR_EVIOCGBIT + EV_KEY, NR_EVIOCGBIT + EV_ABS}
          /\ _IOC_SIZE(th[t].request) >= 1

\* C24: under a configuration whose button count exceeds 512 or whose axis
\* count exceeds 64, every request that consults the maps either fails with
\* EINVAL or gives what the map entries below the capacity alone determine:
\* no entry at an index from the capacity on has a part in the result.
C24_OverCapacityStaysInsideMaps ==
    \A t \in Threads :
        LET r == th[t]
            slot == interposers[r.i]
            cfg == slot.js_config
            capped == IF slot.type = DEV_TYPE_JS
                      THEN intercept_js_ioctl(CappedConfig(cfg), slot.corr, r.request, r.arg)
                      ELSE intercept_ev_ioctl(r.i, CappedConfig(cfg), slot.corr,
                                              r.request, r.arg)
        IN  (/\ ConsultsMaps(t)
             /\ (cfg.num_btns > INTERPOSER_MAX_BTNS \/ cfg.num_axes > INTERPOSER_MAX_AXES))
            => \/ r.ret = -1 /\ r.errno = "EINVAL"
               \/ r.out = capped.out

\* the decoder of thread t is at a read attempt that finds no byte on a
\* socket whose peer is open: the attempt fails with would-block on a
\* non-blocking socket, and on a blocking one it waits or is interrupted
ConfigReadFindsNothing(t) ==
    th[t].pc = "cfg_read" /\ WouldWait(th[t].sockfd)

\* the decoder of thread t is at a read attempt that meets end-of-file
ConfigReadMeetsEof(t) ==
    /\ th[t].pc = "cfg_read" /\ IsSocket(th[t].sockfd)
    /\ Avail(th[t].sockfd) = 0 /\ fdt[th[t].sockfd].peer = "closed"

\* a read attempt that fails with would-block or with an interrupt leaves
\* the decoder in its loop, with the bytes it had
C25_RetriedReadsStayInLoop ==
    \A t \in Threads :
        ConfigReadFindsNothing(t) =>
            /\ th'[t].pc = "cfg_read"
            /\ th'[t].bytes_read_total = th[t].bytes_read_total

\* end-of-file ends the loop short of the record, and a loop that ended
\* short of the record fails the handshake
C25_EofFailsHandshake ==
    \A t \in Threads :
        /\ (ConfigReadMeetsEof(t) /\ th'[t] # th[t]) =>
              /\ th'[t].pc = "cfg_end"
              /\ th'[t].bytes_read_total < SIZEOF_JS_CONFIG
        /\ (/\ th[t].pc = "cfg_end" /\ th[t].bytes_read_total < SIZEOF_JS_CONFIG
            /\ th'[t] # th[t]) => th'[t].pc = "connect_fail"

\* C25: while the configuration record is being read, a read attempt that
\* fails with would-block or with EINTR is retried and does not fail the
\* handshake; end-of-file before the whole record has arrived fails it,
\* whatever number of bytes had been received.
C25_RetryAndEof ==
    [][C25_RetriedReadsStayInLoop /\ C25_EofFailsHandshake]_vars

\* the step by which the decoder of thread t is entered: it leaves the
\* socket in blocking mode and keeps the mode it found
C26_EntryMakesBlocking(t) ==
    (th[t].pc = "cfg_begin" /\ th'[t].pc = "cfg_read" /\ IsOpenFd(th'[t].sockfd)) =>
        /\ ~fdt'[th'[t].sockfd].nonblock
        /\ th'[t].socket_was_nonblocking = fdt[th'[t].sockfd].nonblock

\* no read attempt of the decoder changes the mode
C26_ReadsKeepMode(t) ==
    (th[t].pc = "cfg_read" /\ th'[t] # th[t] /\ IsOpenFd(th[t].sockfd)) =>
        fdt'[th[t].sockfd].nonblock = fdt[th[t].sockfd].nonblock

\* the step by which the decoder returns, with the whole record or short of
\* it: a socket found non-blocking is non-blocking again, one found blocking
\* is left as it is
C26_ReturnRestoresMode(t) ==
    (th[t].pc = "cfg_end" /\ th'[t] # th[t] /\ IsOpenFd(th[t].sockfd)) =>
        fdt'[th[t].sockfd].nonblock =
            IF th[t].socket_was_nonblocking THEN TRUE ELSE fdt[th[t].sockfd].nonblock

\* C26: the configuration decoder gives the socket back in the blocking mode
\* in which it found it, on success, on I/O error and on end-of-file alike,
\* and a socket found non-blocking is put in blocking mode for the reading
\* of the record: of the decoder's own steps the first clears O_NONBLOCK and
\* remembers it, the reads leave the mode alone, the last sets it again.
C26_DecoderKeepsBlockingMode ==
    [][\A t \in Threads : /\ C26_EntryMakesBlocking(t)
                          /\ C26_ReadsKeepMode(t)
                          /\ C26_ReturnRestoresMode(t)]_vars

\* the decoder found the socket non-blocking, read the whole record from it
\* in blocking mode and is about to return
C26_Witness ==
    \E t \in Threads :
        /\ th[t].pc = "cfg_end" /\ th[t].socket_was_nonblocking
        /\ th[t].bytes_read_total = SIZEOF_JS_CONFIG
        /\ ~fdt[th[t].sockfd].nonblock

\* the same, about to return short of the record after end-of-file
C26_WitnessEof ==
    \E t \in Threads :
        /\ th[t].pc = "cfg_end" /\ th[t].socket_was_nonblocking
        /\ th[t].bytes_read_total \in 1 .. (SIZEOF_JS_CONFIG - 1)
        /\ ~fdt[th[t].sockfd].nonblock /\ fdt[th[t].sockfd].peer = "closed"

\* C27: get-button-count and get-axis-count, on a descriptor of either kind,
\* write one byte, and for every count the configuration may legally hold
\* (buttons 0..512, axes 0..64) the byte the caller reads back is the
\* configured count.
C27_CountsReadBack ==
    \A t \in Threads :
        LET cfg == interposers[th[t].i].js_config
        IN  /\ (LegacyReturned(t, 18) /\ cfg.num_btns <= INTERPOSER_MAX_BTNS) =>
                  th[t].ret = 0 /\ th[t].out = <<cfg.num_btns>>
            /\ (LegacyReturned(t, 17) /\ cfg.num_axes <= INTERPOSER_MAX_AXES) =>
                  th[t].ret = 0 /\ th[t].out = <<cfg.num_axes>>

\* the evdev emulator returned from a type 'E' request with number nr and a
\* caller's buffer
EvdevReturned(t, nr) ==
    /\ Emulated(t) /\ ~th[t].arg.null
    /\ interposers[th[t].i].type = DEV_TYPE_EV
    /\ _IOC_TYPE(th[t].request) = TYPE_E /\ _IOC_NR(th[t].request) = nr

\* C28: get-device-properties, get-key-state, get-LED-state and
\* get-switch-state with embedded size L >= 1 each return L and leave the
\* caller's L bytes all zero, whatever the configuration.
C28_StateBitmapsAreZero ==
    \A t \in Threads :
        \A nr \in {NR_EVIOCGPROP, NR_EVIOCGKEY, NR_EVIOCGLED, NR_EVIOCGSW} :
            LET L == _IOC_SIZE(th[t].request)
            IN  (EvdevReturned(t, nr) /\ L >= 1) =>
                    th[t].ret = L /\ th[t].out = ZeroBuf(L)

\* C29: the capability bitmap of every event type T in 0..EV_MAX other than
\* 0, key, abs and force-feedback, with embedded length L >= 1, returns L
\* and leaves the L bytes all zero; for T = 0 the bits set in the L bytes
\* are exactly those of the synchronization, key, absolute-axis and
\* force-feedback types.
C29_OtherTypesAreZero ==
    \A t \in Threads : \A T \in 0 .. EV_MAX :
        LET L == _IOC_SIZE(th[t].request)
        IN  (EvdevReturned(t, NR_EVIOCGBIT + T) /\ L >= 1) =>
               /\ T \notin {0, EV_KEY, EV_ABS, EV_FF} =>
                     th[t].ret = L /\ th[t].out = ZeroBuf(L)
               /\ T = 0 =>
                     /\ th[t].ret = L /\ Len(th[t].out) = L
                     /\ \A c \in 0 .. (8 * L - 1) :
                           TestBit(th[t].out, c) <=> c \in {EV_SYN, EV_KEY, EV_ABS, EV_FF}

\* the step in which the evdev emulator answers a type 'j' request gives
\* the caller and the slot what the joystick emulator gives for the request
\* under the configuration and the correction blob of the slot
C30_EvdevDelegatesLegacy ==
    \A t \in Threads :
        LET r == th[t]
            slot == interposers[r.i]
            js == intercept_js_ioctl(slot.js_config, slot.corr, r.request, r.arg)
        IN  (/\ r.pc = "ioctl_emulate" /\ th'[t].pc = "done"
             /\ slot.type = DEV_TYPE_EV /\ _IOC_TYPE(r.request) = TYPE_J) =>
                /\ th'[t].ret = js.ret /\ th'[t].errno = js.errno
                /\ th'[t].out = js.out
                /\ interposers'[r.i].corr = js.corr

\* the step in which the joystick emulator answers a request of another type
\* returns ENOTTY, writes nothing and leaves the slots as they are
C30_JoystickRejectsOthers ==
    \A t \in Threads :
        (/\ th[t].pc = "ioctl_emulate" /\ th'[t].pc = "done"
         /\ interposers[th[t].i].type = DEV_TYPE_JS
         /\ _IOC_TYPE(th[t].request) # TYPE_J) =>
            /\ th'[t].ret = -1 /\ th'[t].errno = "ENOTTY" /\ th'[t].out = <<>>
            /\ interposers' = interposers

\* C30: a type 'j' ioctl on an evdev descriptor has the result (return
\* value, errno, bytes written, change of the correction blob) that the
\* joystick emulator produces for the same request on a slot with the same
\* configuration and correction blob; a joystick descriptor given an ioctl
\* of another type rejects it with ENOTTY.
C30_LegacyOnEvdevAndOthersOnJoystick ==
    [][C30_EvdevDelegatesLegacy /\ C30_JoystickRejectsOthers]_vars

\* an evdev descriptor took the set-correction request and its slot holds
\* the caller's blob
C30_Witness ==
    \E t \in Threads :
        /\ Emulated(t) /\ interposers[th[t].i].type = DEV_TYPE_EV
        /\ _IOC_TYPE(th[t].request) = TYPE_J /\ _IOC_NR(th[t].request) = 33
        /\ th[t].ret = 0 /\ interposers[th[t].i].corr = th[t].arg.val
        /\ th[t].arg.val = -5

\* a joystick descriptor rejected a type 'E' request
C30_WitnessRejected ==
    \E t \in Threads :
        /\ Emulated(t) /\ interposers[th[t].i].type = DEV_TYPE_JS
        /\ th[t].request = EVIOCGVERSION /\ ~th[t].arg.null
        /\ th[t].ret = -1 /\ th[t].errno = "ENOTTY"

\* C31: the upload of a force-feedback effect with a whole effect record
\* always succeeds: a caller's id of -1 is replaced by the id 1 and the call
\* returns 1; every other id is left as it is and the call returns it, with
\* errno cleared.
C31_UploadEffectSucceeds ==
    \A t \in Threads :
        LET id == th[t].arg.val
        IN  (EvdevReturned(t, 128) /\ th[t].request = EVIOCSFF) =>
               /\ th[t].errno = "0"
               /\ IF id = -1 THEN th[t].ret = 1 /\ th[t].out = <<1>>
                  ELSE th[t].ret = id /\ th[t].out = <<id>>

\* the evdev emulator returned from get-absolute-axis-info of axis code N
\* with a caller's buffer of the size of the record
AbsInfoReturned(t, N) ==
    /\ EvdevReturned(t, NR_EVIOCGABS + N)
    /\ _IOC_SIZE(th[t].request) >= SIZEOF_INPUT_ABSINFO

\* C32: get-absolute-axis-info of every axis code N in 0..ABS_CNT-1 succeeds
\* with a record (value, minimum, maximum, fuzz, flat, resolution) that is a
\* function of N alone: value 0; ABS_Z and ABS_RZ range 0..255, fuzz 0,
\* flat 0; ABS_HAT0X and ABS_HAT0Y range -1..1, fuzz 0, flat 0; every other
\* code range -32767..32767, fuzz 16, flat 128, resolution 1.
C32_AbsInfoDependsOnCodeOnly ==
    \A t \in Threads :
        LET N == _IOC_NR(th[t].request) - NR_EVIOCGABS
        IN  (N \in 0 .. (ABS_CNT - 1) /\ AbsInfoReturned(t, N)) =>
            /\ th[t].ret = 0 /\ th[t].errno = "0"
            /\ Len(th[t].out) = 6 /\ th[t].out[1] = 0
            /\ IF N \in {2, 5} THEN SubSeq(th[t].out, 2, 5) = <<0, 255, 0, 0>>
               ELSE IF N \in {16, 17} THEN SubSeq(th[t].out, 2, 5) = <<-1, 1, 0, 0>>
               ELSE SubSeq(th[t].out, 2, 6) = <<-32767, 32767, 16, 128, 1>>

\* the record of a hat axis came back under the configuration with eleven
\* buttons and eight axes
C32_Witness ==
    \E t \in Threads :
        /\ AbsInfoReturned(t, ABS_HAT0X) /\ th[t].out[2] = -1
        /\ interposers[th[t].i].js_config.num_btns = 11

\* the record of the last axis code came back
C32_WitnessLast ==
    \E t \in Threads : AbsInfoReturned(t, ABS_MAX) /\ th[t].out[2] = -32767

\* the step in which an emulator answers thread t's type 'j' request nr
CalibrationStep(t, nr) ==
    /\ th[t].pc = "ioctl_emulate" /\ th'[t].pc = "done"
    /\ _IOC_TYPE(th[t].request) = TYPE_J /\ _IOC_NR(th[t].request) = nr

\* the request of thread t has the size of the blob and a caller's buffer
CalibrationArgsFit(t) ==
    ~th[t].arg.null /\ _IOC_SIZE(th[t].request) = SIZEOF_JS_CORR

\* set-calibration: stores the caller's blob, or fails with EINVAL and leaves
\* the stored blob as it was
C33_SetStoresOrRefuses ==
    \A t \in Threads :
        CalibrationStep(t, 33) =>
            /\ th'[t].out = <<>>
            /\ IF CalibrationArgsFit(t)
               THEN /\ th'[t].ret = 0 /\ th'[t].errno = "0"
                    /\ interposers'[th[t].i].corr = th[t].arg.val
               ELSE /\ th'[t].ret = -1 /\ th'[t].errno = "EINVAL"
                    /\ interposers' = interposers

\* get-calibration: gives the stored blob, or fails with EINVAL and writes
\* nothing; the stored blob stays
C33_GetReturnsOrRefuses ==
    \A t \in Threads :
        CalibrationStep(t, 34) =>
            /\ interposers' = interposers
            /\ IF CalibrationArgsFit(t)
               THEN /\ th'[t].ret = 0 /\ th'[t].errno = "0"
                    /\ th'[t].out = <<interposers[th[t].i].corr>>
               ELSE /\ th'[t].ret = -1 /\ th'[t].errno = "EINVAL"
                    /\ th'[t].out = <<>>

\* between a set and a later get nothing but another successful set changes
\* the stored blob of a slot
C33_OnlySetChangesBlob ==
    \A i \in Slots :
        interposers'[i].corr # interposers[i].corr =>
            \E t \in Threads :
                th[t].i = i /\ CalibrationStep(t, 33) /\ CalibrationArgsFit(t)

\* C33: a set-calibration whose embedded size is the size of the blob stores
\* the caller's blob, and a later get-calibration on the slot returns, byte
\* for byte, the blob of the most recent successful set; a set or a get with
\* another embedded size, or with a null argument, fails with EINVAL and
\* leaves the stored blob and the caller's buffer as they were.
C33_CalibrationRoundTrip ==
    [][C33_SetStoresOrRefuses /\ C33_GetReturnsOrRefuses /\ C33_OnlySetChangesBlob]_vars

\* a get-calibration returned the blob -5 that an earlier call had stored
C33_Witness ==
    \E t \in Threads :
        /\ LegacyReturned(t, 34) /\ th[t].ret = 0
        /\ th[t].out = <<-5>> /\ th[t].arg.val = -1

\* a set-calibration of the wrong size was refused on a slot that keeps the
\* blob stored before
C33_WitnessRefused ==
    \E t \in Threads :
        /\ LegacyReturned(t, 33) /\ _IOC_SIZE(th[t].request) = SIZEOF_INT
        /\ th[t].ret = -1 /\ th[t].errno = "EINVAL"
        /\ th[t].arg.val = -1 /\ interposers[th[t].i].corr = -5

\* thread t takes a step of a read, an ioctl or an epoll_ctl
StepOfNonLifecycleCall(t) ==
    /\ th'[t] # th[t]
    /\ th[t].op \in {"read", "ioctl", "epoll_ctl"} \/ th'[t].op \in {"read", "ioctl", "epoll_ctl"}

\* the step in which a set-calibration of thread t stores the caller's blob
StoresCalibration(t) ==
    CalibrationStep(t, 33) /\ CalibrationArgsFit(t)

\* C34: no step of a read(), an ioctl() or an epoll_ctl() on an interposed
\* descriptor changes a slot's sockfd, open_flags or js_config, whatever the
\* call returns; the correction blob changes in the set-calibration ioctl
\* alone; and when a read has returned an error or end-of-file the slot
\* still holds the descriptor.
C34_OnlyOpenAndCloseChangeSession ==
    [][\A t \in Threads :
          /\ StepOfNonLifecycleCall(t) =>
                \A i \in Slots :
                    /\ interposers'[i].sockfd = interposers[i].sockfd
                    /\ interposers'[i].open_flags = interposers[i].open_flags
                    /\ interposers'[i].js_config = interposers[i].js_config
                    /\ interposers'[i].corr # interposers[i].corr =>
                          th[t].i = i /\ StoresCalibration(t)
          /\ (/\ th'[t].pc = "done" /\ th'[t].op = "read" /\ th'[t].i # -1
              /\ th'[t].ret <= 0) =>
                interposers'[th'[t].i].sockfd = th'[t].fd]_vars

\* a read on the descriptor of a session returned end-of-file and the slot
\* holds the descriptor and the configuration received
C34_Witness ==
    \E t \in Threads :
        /\ th[t].pc = "done" /\ th[t].op = "read" /\ th[t].i # -1
        /\ th[t].ret = 0 /\ th[t].count > 0
        /\ interposers[th[t].i].sockfd = th[t].fd
        /\ interposers[th[t].i].js_config.num_btns = 2

\* a read on the descriptor of a session failed on a descriptor the kernel
\* does not know
C34_WitnessError ==
    \E t \in Threads :
        /\ th[t].pc = "done" /\ th[t].op = "read" /\ th[t].i # -1
        /\ th[t].ret = -1 /\ th[t].errno = "EBADF"
        /\ interposers[th[t].i].sockfd = th[t].fd

\* the configuration of slot i changes in this step
ConfigChanges(i) == interposers'[i].js_config # interposers[i].js_config

\* a thread is in the handshake of an open of slot i that found the slot
\* without a descriptor and created the socket
InCreatingHandshake(i) ==
    \E t \in Threads :
        /\ IsOpenOp(th[t]) /\ th[t].i = i /\ th[t].made # -1
        /\ th[t].pc \in {"cfg_read", "cfg_end"}

\* C35: a slot's configuration is written only by the handshake of the open
\* that creates its session (and zeroed by close), and whenever the slot has
\* no descriptor between calls -- initially, after a close(), after a
\* handshake that failed part-way through the record -- the configuration is
\* all zero.
C35_ConfigurationZeroWithoutSession ==
    [][/\ \A i \in Slots :
             ConfigChanges(i) =>
                \/ InCreatingHandshake(i)
                \/ interposers'[i].js_config = ZeroConfig
       /\ AtCallBoundary' =>
             \A i \in Slots :
                 interposers'[i].sockfd = -1 => interposers'[i].js_config = ZeroConfig]_vars

\* thread t is at the recv of a read of an interposed descriptor whose
\* socket is in non-blocking mode
NonblockingRecv(t) ==
    /\ th[t].pc = "read_recv" /\ th'[t] # th[t]
    /\ IsSocket(interposers[th[t].i].sockfd)
    /\ fdt[interposers[th[t].i].sockfd].nonblock

\* with nothing queued on a connection the producer holds open (at
\* end-of-file a read returns 0) the read returns -1 with would-block in
\* that step and takes nothing from the socket
C36_EmptyWouldBlock ==
    \A t \in Threads :
        (NonblockingRecv(t) /\ WouldWait(interposers[th[t].i].sockfd)) =>
            /\ th'[t].pc = "done" /\ th'[t].ret = -1 /\ th'[t].errno = "EAGAIN"
            /\ fdt' = fdt

\* with the one record queued that the producer sent since, the read returns
\* the size of a record of the slot's kind and takes the record
C36_RecordDelivered ==
    \A t \in Threads :
        LET fd == interposers[th[t].i].sockfd IN
        (NonblockingRecv(t) /\ fdt[fd].evq = EventSize(fdt[fd].slot)) =>
            /\ th'[t].pc = "done" /\ th'[t].ret = EventSize(th[t].i)
            /\ fdt'[fd].evq = 0

\* C36: whenever the socket behind an interposed descriptor is non-blocking
\* and no event data is queued, a read() with room for a record returns -1
\* with would-block at once and consumes nothing; a later read(), after the
\* producer has sent one record, delivers that whole record.
C36_NonblockingRead ==
    [][C36_EmptyWouldBlock /\ C36_RecordDelivered]_vars

\* C37: a call of open, close, read, ioctl or epoll_ctl whose original
\* function was not resolved at load time returns -1 with errno EFAULT
\* at once, calls nothing and changes no slot and no descriptor, whatever
\* its target; open64 does so only when neither real_open64 nor real_open
\* was resolved, and with real_open alone it passes an unmonitored path to
\* real_open.
C37_Fails(t) ==
    /\ th'[t].pc = "done" /\ th'[t].ret = -1 /\ th'[t].errno = "EFAULT"
    /\ th'[t].nfwd = 0
    /\ interposers' = interposers
    /\ fdt' = fdt
C37_AtEntry(t) ==
    th[t].pc \in {"open", "close", "read", "epoll_ctl", "ioctl"} /\ th'[t] # th[t]
C37_UnresolvedFailsWithEFAULT ==
    [][\A t \in Threads :
          LET r == th[t] IN
          C37_AtEntry(t) =>
             /\ (r.op \in {"open", "close", "read", "epoll_ctl", "ioctl"}
                   /\ ("real_" \o r.op) \notin real) => C37_Fails(t)
             /\ (r.op = "open64" /\ "real_open64" \notin real /\ "real_open" \notin real)
                   => C37_Fails(t)
             /\ (r.op = "open64" /\ "real_open64" \notin real /\ "real_open" \in real
                   /\ SlotOfPath(r.path) = -1)
                   => th'[t].pc = "done" /\ th'[t].fwd = "real_open" /\ th'[t].errno # "EFAULT"]_vars
\* an ioctl on a slot's descriptor was refused because real_ioctl is
\* missing (without real_read no open of a monitored path returns)
C37_Witness ==
    \E t \in Threads :
        /\ th[t].pc = "done" /\ th[t].op = "ioctl" /\ th[t].errno = "EFAULT"
        /\ SlotOfFd(th[t].fd) # -1 /\ "real_ioctl" \notin real
\* a close of a descriptor of no slot was refused
C37_WitnessUnmonitored ==
    \E t \in Threads :
        /\ th[t].pc = "done" /\ th[t].op = "close" /\ th[t].errno = "EFAULT"
        /\ SlotOfFd(th[t].fd) = -1 /\ IsOpenFd(th[t].fd)
\* open64 of a file went to real_open
C37_WitnessFallback ==
    \E t \in Threads :
        /\ th[t].pc = "done" /\ th[t].op = "open64" /\ th[t].fwd = "real_open"
        /\ th[t].ret >= 0 /\ "real_open64" \notin real

\* C38: a step of a handler changes no field of a slot other than the one
\* the call is about, a read or ioctl on the descriptor the application
\* holds for a slot is answered from that slot whatever the other slots
\* hold, and no slot's type changes (the two paths of a slot are functions
\* of its index).
C38_OthersUntouched(t) ==
    \A j \in Slots : interposers'[j] # interposers[j] => j \in {th[t].i, th'[t].i}
C38_AnsweredFromOwnSlot(t) ==
    \A j \in Slots :
        (/\ th[t].pc \in {"read", "ioctl"} /\ th'[t] # th[t]
         /\ held[j] = th[t].fd /\ IsSocket(th[t].fd) /\ fdt[th[t].fd].slot = j)
            => th'[t].i = j
C38_SlotsAreIndependent ==
    [][/\ \A j \in Slots : interposers'[j].type = interposers[j].type
       /\ \A t \in Threads :
             th'[t] # th[t] => C38_OthersUntouched(t) /\ C38_AnsweredFromOwnSlot(t)]_vars

\* C39: sessions are not counted.  While a second user still holds the
\* descriptor that its open of the same path got from the reuse branch, a
\* close() of that descriptor that returns 0 leaves the slot without a
\* session (sockfd -1, open_flags 0, js_config zero), and from then on
\* close, read, ioctl and epoll_ctl on that descriptor value go to the
\* original function with no slot involved.
C39_SecondHolder(fd) ==
    th[2].pc = "done" /\ IsOpenOp(th[2]) /\ th[2].reused /\ th[2].ret = fd
C39_Released(i) ==
    /\ interposers[i].sockfd = -1
    /\ interposers[i].open_flags = 0
    /\ interposers[i].js_config = ZeroConfig
C39_CloseReleases ==
    (/\ th[1].pc = "done" /\ th[1].op = "close" /\ th[1].i # -1 /\ th[1].ret = 0
     /\ C39_SecondHolder(th[1].fd))
        => C39_Released(th[1].i)
C39_LaterCallsForwarded ==
    (/\ th[1].pc = "done" /\ th[1].op \in {"close", "read", "ioctl", "epoll_ctl"}
     /\ C39_SecondHolder(th[1].fd)
     /\ \A i \in Slots : interposers[i].sockfd # th[1].fd
     /\ ~(th[1].op = "close" /\ th[1].i # -1))
        => th[1].i = -1 /\ th[1].nfwd = 1 /\ th[1].fwd = OriginalOf(th[1])
C39_NotReferenceCounted == C39_CloseReleases /\ C39_LaterCallsForwarded
\* the close that ended the shared session returned 0
C39_Witness ==
    /\ th[1].pc = "done" /\ th[1].op = "close" /\ th[1].i # -1 /\ th[1].ret = 0
    /\ C39_SecondHolder(th[1].fd)
\* a read on the closed descriptor went to real_read
C39_WitnessForwarded ==
    /\ th[1].pc = "done" /\ th[1].op = "read" /\ th[1].fwd = "real_read"
    /\ C39_SecondHolder(th[1].fd) /\ C39_Released(0)

\* C40: the correction blob of a slot belongs to the slot, not to a session.
\* No step of an open, an open64 or a close changes it, whether the call
\* succeeds or fails; a step that changes it is a successful
\* set-calibration on that slot; and a successful get-calibration returns
\* the blob the slot holds, whichever session stored it.
C40_LifecycleKeepsBlob(t) ==
    (th[t].op \in {"open", "open64", "close"} /\ th'[t] # th[t]) =>
        \A i \in Slots : interposers'[i].corr = interposers[i].corr
C40_ChangedBySetOnly(i) ==
    interposers'[i].corr # interposers[i].corr =>
        \E t \in Threads : th[t].i = i /\ StoresCalibration(t) /\ th'[t].ret = 0
C40_GetReadsSlot(t) ==
    (CalibrationStep(t, 34) /\ th'[t].ret = 0) =>
        th'[t].out = <<interposers[th[t].i].corr>>
C40_BlobOutlivesSession ==
    [][/\ \A t \in Threads : C40_LifecycleKeepsBlob(t) /\ C40_GetReadsSlot(t)
       /\ \A i \in Slots : C40_ChangedBySetOnly(i)]_vars
\* an open has just created a session on a slot that holds a blob stored
\* before this session existed
C40_Witness ==
    \E t \in Threads :
        /\ th[t].pc = "done" /\ IsOpenOp(th[t]) /\ ~th[t].reused /\ th[t].ret >= 0
        /\ th[t].i # -1 /\ interposers[th[t].i].corr # 0
        /\ interposers[th[t].i].sockfd = th[t].ret
\* a close has released the session and the blob is still there
C40_WitnessClosed ==
    \E t \in Threads :
        /\ th[t].pc = "done" /\ th[t].op = "close" /\ th[t].i # -1 /\ th[t].ret = 0
        /\ interposers[th[t].i].sockfd = -1 /\ interposers[th[t].i].corr # 0
\* an open failed on a slot that holds a blob
C40_WitnessFailedOpen ==
    \E t \in Threads :
        /\ th[t].pc = "done" /\ IsOpenOp(th[t]) /\ th[t].ret = -1
        /\ th[t].i # -1 /\ interposers[th[t].i].corr # 0

====
